---------------------------- MODULE Spec2Model ----------------------------
(***************************************************************************)
(* BMEcat -> ETIM xChange converter (src/converter.py, src/main.py).       *)
(*                                                                         *)
(* Python values are modelled as tagged records [t, v]:                    *)
(*   None -> JNull, str -> JStr(<<chars>>), int/float -> JNum(n),          *)
(*   bool -> JBool(b), list -> JList(<<items>>),                           *)
(*   dict -> JDict(<<[k, v], ...>>) in insertion order, keys distinct.     *)
(* A text is a sequence of one-character strings, so that strip(),         *)
(* lower(), startswith(), len() and float() are computed on characters.    *)
(***************************************************************************)
EXTENDS Integers, Sequences, FiniteSets, TLC

VARIABLES
    pc,          \* position of the run being modelled
    data,        \* clean_json: the argument
    cleaned,     \* clean_json(data)
    recleaned,   \* clean_json(clean_json(data))
    FEATURE,     \* process_feature_values: the FVALUE texts of the FEATURE element
    result,      \* process_feature_values: the dictionary returned
    lang_code,   \* convert_to_language_region_code: the argument
    resolved,    \* convert_to_language_region_code: its outcome
    HEADER,              \* convert_BMEcat: the HEADER element of the document
    CATALOG,             \* convert_BMEcat: the PRODUCT elements of the document
    DefaultLangBMEcat,   \* convert_BMEcat: the default language, as the header writes it
    DefaultLangxChange,  \* convert_BMEcat: the default language, resolved
    LANGUAGEs,           \* convert_BMEcat: the texts of the header LANGUAGE elements
    xChange,             \* convert_BMEcat: the document under construction
    product_counter,     \* convert_BMEcat: products taken from CATALOG so far
    output_file,         \* convert_file: the content of the file at output_path
    REFERENCE,     \* convert_BMEcat: a PRODUCT_REFERENCE element of a product
    MIME,          \* convert_BMEcat: a MIME element of a supplier, product or item
    XML_root,      \* get_val, get_val_attr: the elements the target field matches
    target_field,  \* get_val: the field looked up
    type_asked,    \* get_val, get_val_attr: the val_type of the call
    filter_asked,  \* get_val_attr: the attributes of the call
    returned,      \* the outcome of the step on the element
    PRODUCT,       \* convert_BMEcat: a PRODUCT element with the blocks read from it
    requests,     \* convert: the /convert requests, each with its position in the handler
    CONVERSION_SEMAPHORE,  \* main.py: the semaphore of the conversions
    UPLOAD_DIR    \* main.py: the files of the temp directory, by path

cleanVars == <<data, cleaned, recleaned>>
featureVars == <<FEATURE, result>>
languageVars == <<lang_code, resolved>>
convertVars == <<HEADER, CATALOG, DefaultLangBMEcat, DefaultLangxChange, LANGUAGEs,
                 xChange, product_counter, output_file>>
elementVars == <<REFERENCE, MIME, XML_root, target_field, type_asked, filter_asked,
                 returned>>
productVars == <<PRODUCT>>
serverVars == <<requests, CONVERSION_SEMAPHORE, UPLOAD_DIR>>
vars == <<pc, cleanVars, featureVars, languageVars, convertVars, elementVars, productVars, serverVars>>

(***************************************************************************)
(* Bounds of the model.                                                    *)
(***************************************************************************)
MaxNodes == 4        \* nodes (scalars and containers) of a JSON tree
MaxFValues == 3      \* FVALUE elements of a FEATURE
FracDigits == 6      \* decimal digits a float keeps after the point
MaxLanguages == 2    \* LANGUAGE elements of the header
MaxProducts == 2     \* PRODUCT elements of the catalog
MaxElements == 2     \* description texts of a product
MaxMatches == 2      \* elements a target field matches

(***************************************************************************)
(* Python / JSON values.                                                   *)
(***************************************************************************)
JNull == [t |-> "null", v |-> 0]
JStr(s) == [t |-> "str", v |-> s]
JNum(n) == [t |-> "num", v |-> n]
JBool(b) == [t |-> "bool", v |-> b]
JList(items) == [t |-> "list", v |-> items]
JDict(entries) == [t |-> "dict", v |-> entries]

\* A variable that the specification at hand does not use.
Unused == [t |-> "unused", v |-> 0]
CleanUnused == data = Unused /\ cleaned = Unused /\ recleaned = Unused
FeatureUnused == FEATURE = Unused /\ result = Unused
LanguageUnused == lang_code = Unused /\ resolved = Unused
ConvertUnused ==
    /\ HEADER = Unused /\ CATALOG = Unused
    /\ DefaultLangBMEcat = Unused /\ DefaultLangxChange = Unused
    /\ LANGUAGEs = Unused /\ xChange = Unused
    /\ product_counter = Unused /\ output_file = Unused
ElementUnused ==
    /\ REFERENCE = Unused /\ MIME = Unused /\ XML_root = Unused
    /\ target_field = Unused /\ type_asked = Unused /\ filter_asked = Unused
    /\ returned = Unused
ProductUnused == PRODUCT = Unused
ServerUnused == requests = Unused /\ CONVERSION_SEMAPHORE = Unused /\ UPLOAD_DIR = Unused

(***************************************************************************)
(* Python str methods, on sequences of characters.                         *)
(***************************************************************************)
UpperLetters == <<"A", "B", "C", "D", "E", "F", "G", "H", "I", "J", "K", "L", "M",
                  "N", "O", "P", "Q", "R", "S", "T", "U", "V", "W", "X", "Y", "Z">>
LowerLetters == <<"a", "b", "c", "d", "e", "f", "g", "h", "i", "j", "k", "l", "m",
                  "n", "o", "p", "q", "r", "s", "t", "u", "v", "w", "x", "y", "z">>
DigitChars == <<"0", "1", "2", "3", "4", "5", "6", "7", "8", "9">>
Whitespace == {" ", "\t", "\n", "\r"}

IsDigit(c) == \E i \in 1..Len(DigitChars) : DigitChars[i] = c
DigitValue(c) == (CHOOSE i \in 1..Len(DigitChars) : DigitChars[i] = c) - 1

LowerChar(c) ==
    IF \E i \in 1..Len(UpperLetters) : UpperLetters[i] = c
    THEN LowerLetters[CHOOSE i \in 1..Len(UpperLetters) : UpperLetters[i] = c]
    ELSE c

UpperChar(c) ==
    IF \E i \in 1..Len(LowerLetters) : LowerLetters[i] = c
    THEN UpperLetters[CHOOSE i \in 1..Len(LowerLetters) : LowerLetters[i] = c]
    ELSE c

\* str.lower(), str.upper()
lower(s) == [i \in 1..Len(s) |-> LowerChar(s[i])]
upper(s) == [i \in 1..Len(s) |-> UpperChar(s[i])]

RECURSIVE lstrip(_), rstrip(_)
lstrip(s) == IF s # <<>> /\ Head(s) \in Whitespace THEN lstrip(Tail(s)) ELSE s
rstrip(s) ==
    IF s # <<>> /\ s[Len(s)] \in Whitespace THEN rstrip(SubSeq(s, 1, Len(s) - 1)) ELSE s

\* str.strip()
strip(s) == rstrip(lstrip(s))

RECURSIVE rstrip_char(_, _)
\* str.rstrip(c) for one character c
rstrip_char(s, c) ==
    IF s # <<>> /\ s[Len(s)] = c THEN rstrip_char(SubSeq(s, 1, Len(s) - 1), c) ELSE s

\* str.startswith(prefix)
startswith(s, prefix) ==
    Len(s) >= Len(prefix) /\ SubSeq(s, 1, Len(prefix)) = prefix

(***************************************************************************)
(* Python float: a finite value is held exactly, as a whole number of      *)
(* 10^-FracDigits; nan and the infinities are values of their own.         *)
(***************************************************************************)
FloatScale == 10 ^ FracDigits
FloatFin(n) == [k |-> "fin", n |-> n]
FloatNaN == [k |-> "nan", n |-> 0]
FloatInf(neg) == [k |-> "inf", n |-> IF neg THEN -1 ELSE 1]
ParseError == [k |-> "ValueError", n |-> 0]

RECURSIVE DigitsValue(_)
\* The number a sequence of digits writes ("" is 0).
DigitsValue(ds) ==
    IF ds = <<>> THEN 0
    ELSE 10 * DigitsValue(SubSeq(ds, 1, Len(ds) - 1)) + DigitValue(ds[Len(ds)])

\* digits [ "." digits ] with at least one digit; at most FracDigits digits
\* after the point, none of the modelled texts has more.
IsDecimalText(s) ==
    /\ \A i \in 1..Len(s) : IsDigit(s[i]) \/ s[i] = "."
    /\ Cardinality({i \in 1..Len(s) : s[i] = "."}) <= 1
    /\ \E i \in 1..Len(s) : IsDigit(s[i])

DecimalValue(s) ==
    LET dots == {i \in 1..Len(s) : s[i] = "."}
        dot == IF dots = {} THEN Len(s) + 1 ELSE CHOOSE i \in dots : TRUE
        int_part == SubSeq(s, 1, dot - 1)
        frac_part == SubSeq(s, dot + 1, Len(s))
    IN DigitsValue(int_part) * FloatScale
       + DigitsValue(frac_part) * 10 ^ (FracDigits - Len(frac_part))

\* float(text): surrounding whitespace and a sign are accepted; "nan", "inf"
\* and "infinity" in any case are numbers; anything else that is not a
\* decimal raises ValueError.  (Exponents and digit-group underscores, which
\* float() also reads, occur in none of the modelled texts.)
float(s) ==
    LET b == strip(s)
        signed == b # <<>> /\ Head(b) \in {"+", "-"}
        neg == b # <<>> /\ Head(b) = "-"
        body == IF signed THEN Tail(b) ELSE b
    IN IF lower(body) = <<"n", "a", "n">> THEN FloatNaN
       ELSE IF lower(body) \in {<<"i", "n", "f">>,
                                <<"i", "n", "f", "i", "n", "i", "t", "y">>}
       THEN FloatInf(neg)
       ELSE IF IsDecimalText(body)
       THEN FloatFin(IF neg THEN 0 - DecimalValue(body) ELSE DecimalValue(body))
       ELSE ParseError

\* a < b on floats: every comparison with nan is False.
FloatOrder(a) == IF a.k = "inf" THEN a.n * FloatScale * FloatScale ELSE a.n
FloatLess(a, b) == a.k # "nan" /\ b.k # "nan" /\ FloatOrder(a) < FloatOrder(b)

RECURSIVE py_min_from(_, _), py_max_from(_, _)
py_min_from(best, rest) ==
    IF rest = <<>> THEN best
    ELSE py_min_from(IF FloatLess(Head(rest), best) THEN Head(rest) ELSE best, Tail(rest))
py_max_from(best, rest) ==
    IF rest = <<>> THEN best
    ELSE py_max_from(IF FloatLess(best, Head(rest)) THEN Head(rest) ELSE best, Tail(rest))

\* min(list), max(list): the first item, replaced by each later item that
\* compares smaller (larger).
py_min(xs) == py_min_from(Head(xs), Tail(xs))
py_max(xs) == py_max_from(Head(xs), Tail(xs))

RECURSIVE IntChars(_)
\* str(n) for n >= 0
IntChars(n) ==
    IF n < 10 THEN <<DigitChars[n + 1]>>
    ELSE Append(IntChars(n \div 10), DigitChars[(n % 10) + 1])

\* The digits of n, zero-padded on the left to w digits.
PaddedChars(n, w) ==
    LET ds == IntChars(n)
    IN [i \in 1..(w - Len(ds)) |-> "0"] \o ds

Abs(n) == IF n < 0 THEN 0 - n ELSE n

(***************************************************************************)
(* Mappings (dict) as sequences of entries.                                *)
(***************************************************************************)
Entry(key, value) == [k |-> key, v |-> value]
HasKey(d, key) == \E i \in 1..Len(d.v) : d.v[i].k = key
\* d[key]
Get(d, key) == d.v[CHOOSE i \in 1..Len(d.v) : d.v[i].k = key].v

(***************************************************************************)
(* clean_number (converter.py 558-576), applied to a float.                *)
(***************************************************************************)
FormatDecimals == 4

\* Mutant: the digits after the fourth decimal are cut off.
format_4f_trunc(n) ==
    LET unit == FloatScale \div (10 ^ FormatDecimals)
        q == Abs(n) \div unit
    IN (IF n < 0 THEN <<"-">> ELSE <<>>)
       \o IntChars(q \div (10 ^ FormatDecimals))
       \o <<".">>
       \o PaddedChars(q % (10 ^ FormatDecimals), FormatDecimals)

\* f"{x:.4f}" of a finite x: x rounded to the nearest multiple of 10^-4 and
\* written with exactly four decimals.  (A text that is an exact decimal
\* tie is rounded by the binary value nearest to it, which is not held
\* here; none of the modelled texts is such a tie.)
format_4f(n) ==
    LET unit == FloatScale \div (10 ^ FormatDecimals)
        q == Abs(n) \div unit
        r == Abs(n) % unit
        rounded == IF 2 * r >= unit THEN q + 1 ELSE q
    IN (IF n < 0 THEN <<"-">> ELSE <<>>)
       \o IntChars(rounded \div (10 ^ FormatDecimals))
       \o <<".">>
       \o PaddedChars(rounded % (10 ^ FormatDecimals), FormatDecimals)

\* float_val.is_integer() -> str(int(float_val)); otherwise the .4f text
\* without its trailing zeros and without a trailing point.  nan and the
\* infinities are not integers and format as "nan", "inf", "-inf".
clean_number(value) ==
    IF value.k = "nan" THEN <<"n", "a", "n">>
    ELSE IF value.k = "inf"
    THEN (IF value.n < 0 THEN <<"-">> ELSE <<>>) \o <<"i", "n", "f">>
    ELSE IF value.n % FloatScale = 0
    THEN (IF value.n < 0 THEN <<"-">> ELSE <<>>) \o IntChars(Abs(value.n) \div FloatScale)
    ELSE rstrip_char(rstrip_char(format_4f(value.n), "0"), ".")

(***************************************************************************)
(* process_feature_values (converter.py 578-625).  FVALUEs holds the text  *)
(* of each FVALUE element in document order: JStr(chars), or JNull for an  *)
(* element without text.                                                   *)
(***************************************************************************)
EvPrefix == <<"E", "V">>
EvCodeLength == 8

\* 591-594
StrippedValues(FVALUEs) ==
    [i \in 1..Len(FVALUEs) |->
        IF FVALUEs[i] = JNull THEN <<>> ELSE strip(FVALUEs[i].v)]

\* 597
IsEvCode(val) == startswith(val, EvPrefix) /\ Len(val) = EvCodeLength

\* 602-607
NumericValues(fvalues) ==
    LET Parses(val) == float(val) # ParseError
        parsed == SelectSeq(fvalues, Parses)
    IN [i \in 1..Len(parsed) |-> float(parsed[i])]

\* 615-621
BoolValues(fvalues) ==
    LET IsBool(val) == lower(val) \in {<<"t", "r", "u", "e">>, <<"f", "a", "l", "s", "e">>}
        bools == SelectSeq(fvalues, IsBool)
    IN [i \in 1..Len(bools) |-> lower(bools[i]) = <<"t", "r", "u", "e">>]

\* 608-612
NumericEntries(numeric_values) ==
    IF Len(numeric_values) = 2
    THEN <<Entry("EtimValueRangeLower", JStr(clean_number(py_min(numeric_values)))),
           Entry("EtimValueRangeUpper", JStr(clean_number(py_max(numeric_values))))>>
    ELSE IF Len(numeric_values) = 1
    THEN <<Entry("EtimValueNumeric", JStr(clean_number(numeric_values[1])))>>
    ELSE <<>>

process_feature_values(FVALUEs) ==
    LET fvalues == StrippedValues(FVALUEs)
        ev_codes == SelectSeq(fvalues, IsEvCode)
        numeric_values == NumericValues(fvalues)
        bool_values == BoolValues(fvalues)
    IN JDict(
        (IF ev_codes # <<>>
         THEN <<Entry("EtimValueCode", JStr(ev_codes[1]))>>
         ELSE <<>>)
        \o NumericEntries(numeric_values)
        \o (IF bool_values # <<>>
            THEN <<Entry("EtimValueLogical", JBool(bool_values[1]))>>
            ELSE <<>>))

\* The FVALUE texts the model draws from.
FValueTexts ==
    { JNull,
      JStr(<<"E", "V", "0", "0", "0", "0", "0", "1">>), JStr(<<"E", "V", "0", "0", "0", "0", "0", "2">>), JStr(<<"E", "V", "0", "0", "0", "1">>),
      JStr(<<" ", "5", " ">>), JStr(<<"3">>), JStr(<<"7">>),
      JStr(<<"2", ".", "5">>), JStr(<<"2", ".", "1", "2", "3", "4", "5", "6">>), JStr(<<"2", ".", "0">>),
      JStr(<<"t", "r", "u", "e">>), JStr(<<"F", "a", "l", "s", "e">>), JStr(<<"a", "b", "c">>), JStr(<<"n", "a", "n">>) }

FValueLists == UNION {[1..n -> FValueTexts] : n \in 0..MaxFValues}

(***************************************************************************)
(* clean_json (converter.py 1129-1159).                                    *)
(***************************************************************************)
\* Mutant: Python truthiness instead of the four explicit comparisons,
\* which also drops 0 and False.
IsEmptyValue_truthy(x) ==
    \/ x = JNull
    \/ x = JStr(<<>>)
    \/ x = JList(<<>>)
    \/ x = JDict(<<>>)
    \/ x = JNum(0)
    \/ x = JBool(FALSE)

\* The test of lines 1149 and 1157, negated: the value is None, "", [] or {}.
IsEmptyValue(x) ==
    \/ x = JNull
    \/ x = JStr(<<>>)
    \/ x = JList(<<>>)
    \/ x = JDict(<<>>)

RECURSIVE clean_json_rawtest(_)
\* Mutant: the emptiness test is applied to the value as found, not to the
\* cleaned value, so a container emptied by the recursion stays in place.
clean_json_rawtest(d) ==
    IF d.t = "dict"
    THEN LET Keep(e) == ~IsEmptyValue(e.v)
             kept == SelectSeq(d.v, Keep)
         IN JDict([i \in 1..Len(kept) |->
                     [k |-> kept[i].k, v |-> clean_json_rawtest(kept[i].v)]])
    ELSE IF d.t = "list"
    THEN LET Keep(x) == ~IsEmptyValue(x)
             kept == SelectSeq(d.v, Keep)
         IN JList([i \in 1..Len(kept) |-> clean_json_rawtest(kept[i])])
    ELSE d

RECURSIVE clean_json_keeplist(_)
\* Mutant: only mapping entries are filtered; list elements are cleaned but
\* all kept.
clean_json_keeplist(d) ==
    IF d.t = "dict"
    THEN LET cleaned_entries ==
                 [i \in 1..Len(d.v) |->
                    [k |-> d.v[i].k, v |-> clean_json_keeplist(d.v[i].v)]]
             Keep(e) == ~IsEmptyValue(e.v)
         IN JDict(SelectSeq(cleaned_entries, Keep))
    ELSE IF d.t = "list"
    THEN JList([i \in 1..Len(d.v) |-> clean_json_keeplist(d.v[i])])
    ELSE d

RECURSIVE clean_json(_)
\* Primitives are returned as they are (1141-1142); a mapping keeps, in
\* order, the entries whose cleaned value is not empty (1144-1151); a list
\* keeps, in order, the cleaned items that are not empty (1152-1159).
clean_json(d) ==
    IF d.t = "dict"
    THEN LET cleaned_entries ==
                 [i \in 1..Len(d.v) |-> [k |-> d.v[i].k, v |-> clean_json(d.v[i].v)]]
             Keep(e) == ~IsEmptyValue(e.v)
         IN JDict(SelectSeq(cleaned_entries, Keep))
    ELSE IF d.t = "list"
    THEN LET cleaned_items == [i \in 1..Len(d.v) |-> clean_json(d.v[i])]
             Keep(x) == ~IsEmptyValue(x)
         IN JList(SelectSeq(cleaned_items, Keep))
    ELSE d

(***************************************************************************)
(* JSON-shaped inputs of clean_json: every tree of at most MaxNodes nodes  *)
(* over these scalars and keys.                                            *)
(***************************************************************************)
Scalars == {JNull, JStr(<<>>), JStr(<<"a">>), JNum(0), JBool(FALSE)}
Keys == {"k1", "k2"}

\* The key orders a mapping of n entries can have.
InjectiveKeySeqs(n) ==
    {ks \in [1..n -> Keys] : \A i, j \in 1..n : ks[i] = ks[j] => i = j}

KeySeqs == UNION {InjectiveKeySeqs(n) : n \in 0..Cardinality(Keys)}

RECURSIVE Entries(_, _)
\* The entries of a mapping with keys ks (in insertion order) and values f.
Entries(ks, f) ==
    IF ks = <<>> THEN <<>>
    ELSE <<[k |-> Head(ks), v |-> Head(f)]>> \o Entries(Tail(ks), Tail(f))

RECURSIVE ForestsOfSize(_, _)
\* Sequences of trees with m nodes in total; bySize[k] holds the trees of
\* k nodes, for every k <= m.
ForestsOfSize(bySize, m) ==
    IF m = 0 THEN {<<>>}
    ELSE UNION {{<<tr>> \o f : tr \in bySize[k], f \in ForestsOfSize(bySize, m - k)}
                  : k \in 1..m}

\* The trees of n nodes: a scalar, or a list or a mapping over a forest of
\* n - 1 nodes.
TreesOfSize(bySize, n) ==
    UNION {(IF n = 1 THEN Scalars ELSE {})
           \cup {JList(f) : f \in forests}
           \cup {JDict(Entries(p[1], p[2]))
                   : p \in {q \in KeySeqs \X forests : Len(q[1]) = Len(q[2])}}
             : forests \in {ForestsOfSize(bySize, n - 1)}}

RECURSIVE TreeTable(_)
\* <<trees of 1 node, ..., trees of n nodes>>.  The shorter table is bound
\* through a one-element set, so that it is built once and not at each use.
TreeTable(n) ==
    IF n = 0 THEN <<>>
    ELSE CHOOSE table \in {Append(bySize, TreesOfSize(bySize, n))
                             : bySize \in {TreeTable(n - 1)}} : TRUE

\* Every tree of at most maxNodes nodes.
JsonTrees(maxNodes) ==
    UNION {bySize[n] : n \in 1..maxNodes, bySize \in {TreeTable(maxNodes)}}

(***************************************************************************)
(* Outcome of a call: the value returned, or the exception raised.         *)
(***************************************************************************)
Returned(value) == [raised |-> FALSE, value |-> value]
Raised(exception) == [raised |-> TRUE, value |-> [t |-> exception, v |-> 0]]

\* str(x) as an f-string formats it
PyStr(x) == IF x = JNull THEN <<"N", "o", "n", "e">> ELSE x.v

\* bool(x)
Truthy(x) ==
    ~ \/ x = JNull
      \/ x.t \in {"str", "list", "dict"} /\ x.v = <<>>
      \/ x.t = "num" /\ x.v = 0
      \/ x.t = "bool" /\ x.v = FALSE

\* a or b
PyOr(a, b) == IF Truthy(a) THEN a ELSE b

(***************************************************************************)
(* convert_to_language_region_code (converter.py 155-271).                 *)
(***************************************************************************)
\* 170-252
iso_to_lang_region ==
    (<<"d", "e", "u">> :> <<"d", "e", "-", "D", "E">>)
    @@ (<<"g", "e", "r">> :> <<"d", "e", "-", "D", "E">>)
    @@ (<<"e", "n", "g">> :> <<"e", "n", "-", "G", "B">>)
    @@ (<<"n", "l", "d">> :> <<"n", "l", "-", "N", "L">>)
    @@ (<<"d", "u", "t">> :> <<"n", "l", "-", "N", "L">>)
    @@ (<<"s", "w", "e">> :> <<"s", "v", "-", "S", "E">>)
    @@ (<<"n", "o", "r">> :> <<"n", "o", "-", "N", "O">>)
    @@ (<<"d", "a", "n">> :> <<"d", "a", "-", "D", "K">>)
    @@ (<<"i", "s", "l">> :> <<"i", "s", "-", "I", "S">>)
    @@ (<<"i", "c", "e">> :> <<"i", "s", "-", "I", "S">>)
    @@ (<<"f", "r", "a">> :> <<"f", "r", "-", "F", "R">>)
    @@ (<<"f", "r", "e">> :> <<"f", "r", "-", "F", "R">>)
    @@ (<<"i", "t", "a">> :> <<"i", "t", "-", "I", "T">>)
    @@ (<<"s", "p", "a">> :> <<"e", "s", "-", "E", "S">>)
    @@ (<<"p", "o", "r">> :> <<"p", "t", "-", "P", "T">>)
    @@ (<<"r", "o", "n">> :> <<"r", "o", "-", "R", "O">>)
    @@ (<<"r", "u", "m">> :> <<"r", "o", "-", "R", "O">>)
    @@ (<<"r", "u", "s">> :> <<"r", "u", "-", "R", "U">>)
    @@ (<<"p", "o", "l">> :> <<"p", "l", "-", "P", "L">>)
    @@ (<<"c", "e", "s">> :> <<"c", "s", "-", "C", "Z">>)
    @@ (<<"c", "z", "e">> :> <<"c", "s", "-", "C", "Z">>)
    @@ (<<"s", "l", "k">> :> <<"s", "k", "-", "S", "K">>)
    @@ (<<"s", "l", "o">> :> <<"s", "k", "-", "S", "K">>)
    @@ (<<"u", "k", "r">> :> <<"u", "k", "-", "U", "A">>)
    @@ (<<"b", "u", "l">> :> <<"b", "g", "-", "B", "G">>)
    @@ (<<"j", "p", "n">> :> <<"j", "a", "-", "J", "P">>)
    @@ (<<"z", "h", "o">> :> <<"z", "h", "-", "C", "N">>)
    @@ (<<"c", "h", "i">> :> <<"z", "h", "-", "C", "N">>)
    @@ (<<"k", "o", "r">> :> <<"k", "o", "-", "K", "R">>)
    @@ (<<"t", "h", "a">> :> <<"t", "h", "-", "T", "H">>)
    @@ (<<"v", "i", "e">> :> <<"v", "i", "-", "V", "N">>)
    @@ (<<"e", "l", "l">> :> <<"e", "l", "-", "G", "R">>)
    @@ (<<"g", "r", "e">> :> <<"e", "l", "-", "G", "R">>)
    @@ (<<"h", "u", "n">> :> <<"h", "u", "-", "H", "U">>)
    @@ (<<"f", "i", "n">> :> <<"f", "i", "-", "F", "I">>)
    @@ (<<"t", "u", "r">> :> <<"t", "r", "-", "T", "R">>)
    @@ (<<"a", "r", "a">> :> <<"a", "r", "-", "S", "A">>)
    @@ (<<"h", "e", "b">> :> <<"h", "e", "-", "I", "L">>)
    @@ (<<"f", "a", "s">> :> <<"f", "a", "-", "I", "R">>)
    @@ (<<"p", "e", "r">> :> <<"f", "a", "-", "I", "R">>)
    @@ (<<"h", "i", "n">> :> <<"h", "i", "-", "I", "N">>)
    @@ (<<"b", "e", "n">> :> <<"b", "n", "-", "B", "D">>)
    @@ (<<"t", "a", "m">> :> <<"t", "a", "-", "I", "N">>)
    @@ (<<"s", "w", "a">> :> <<"s", "w", "-", "K", "E">>)
    @@ (<<"i", "n", "d">> :> <<"i", "d", "-", "I", "D">>)
    @@ (<<"m", "s", "a">> :> <<"m", "s", "-", "M", "Y">>)
    @@ (<<"m", "a", "y">> :> <<"m", "s", "-", "M", "Y">>)
    @@ (<<"h", "y", "e">> :> <<"h", "y", "-", "A", "M">>)
    @@ (<<"a", "r", "m">> :> <<"h", "y", "-", "A", "M">>)
    @@ (<<"k", "a", "t">> :> <<"k", "a", "-", "G", "E">>)
    @@ (<<"g", "e", "o">> :> <<"k", "a", "-", "G", "E">>)
    @@ (<<"e", "u", "s">> :> <<"e", "u", "-", "E", "S">>)
    @@ (<<"b", "a", "q">> :> <<"e", "u", "-", "E", "S">>)
    @@ (<<"s", "l", "v">> :> <<"s", "l", "-", "S", "I">>)
    @@ (<<"m", "r", "i">> :> <<"m", "i", "-", "N", "Z">>)
    @@ (<<"m", "a", "o">> :> <<"m", "i", "-", "N", "Z">>)
    @@ (<<"m", "y", "a">> :> <<"m", "y", "-", "M", "M">>)
    @@ (<<"b", "u", "r">> :> <<"m", "y", "-", "M", "M">>)
    @@ (<<"m", "k", "d">> :> <<"m", "k", "-", "M", "K">>)
    @@ (<<"m", "a", "c">> :> <<"m", "k", "-", "M", "K">>)
    @@ (<<"c", "y", "m">> :> <<"c", "y", "-", "G", "B">>)
    @@ (<<"w", "e", "l">> :> <<"c", "y", "-", "G", "B">>)
    @@ (<<"a", "l", "b">> :> <<"s", "q", "-", "A", "L">>)
    @@ (<<"s", "q", "i">> :> <<"s", "q", "-", "A", "L">>)

\* Mutant: the code is looked up as it is written.
convert_to_language_region_code_exact(iso_code) ==
    IF iso_code = JNull THEN Returned(JNull)
    ELSE IF iso_code.v \notin DOMAIN iso_to_lang_region
    THEN Raised("ValueError")
    ELSE Returned(JStr(iso_to_lang_region[iso_code.v]))

\* 258-271
convert_to_language_region_code(iso_code) ==
    IF iso_code = JNull THEN Returned(JNull)
    ELSE LET code == lower(strip(iso_code.v))
         IN IF code \notin DOMAIN iso_to_lang_region
            THEN Raised("ValueError")
            ELSE Returned(JStr(iso_to_lang_region[code]))

\* The codes the model resolves: None, every code of the table as written,
\* in capitals and with whitespace around it, and texts that are no code.
IsoCodes ==
    {JNull}
    \cup {JStr(code) : code \in DOMAIN iso_to_lang_region}
    \cup {JStr(upper(code)) : code \in DOMAIN iso_to_lang_region}
    \cup {JStr(<<" ">> \o code \o <<"\n">>) : code \in DOMAIN iso_to_lang_region}
    \cup {JStr(<<"\t">> \o upper(code) \o <<" ">>) : code \in DOMAIN iso_to_lang_region}
    \cup {JStr(<<>>), JStr(<<" ">>), JStr(<<"x", "y", "z">>), JStr(<<"d", "e">>), JStr(<<"d", "e", "-", "D", "E">>),
          JStr(<<"g", "e", "r", "m", "a", "n">>), JStr(<<"d", " ", "e", "u">>), JStr(<<"d", "e", "u", "1">>)}

(***************************************************************************)
(* The input document, as far as its language codes go.  An element is     *)
(* its lang attribute (JNull when it has none) and its text (JNull when it *)
(* has none); a header LANGUAGE element is its text and its default        *)
(* attribute.  HEADER is [LANGUAGE |-> <<elements>>] and a PRODUCT maps    *)
(* each tag to its elements of that tag in document order.                 *)
(***************************************************************************)
Element(lang, text) == [lang |-> lang, text |-> text]
LanguageElement(text, default) == [text |-> text, default |-> default]

\* The tags whose elements carry a language, and all tags of a product.
LanguageTags ==
    {"DESCRIPTION_SHORT", "KEYWORD", "UDX.EDXF.MIME_SOURCE", "FVALUE_DETAILS",
     "UDX.EDXF.PRODUCT_CHARACTERISTIC_NAME"}
TextTags ==
    {"UDX.EDXF.DESCRIPTION_VERY_SHORT", "DESCRIPTION_SHORT", "DESCRIPTION_LONG",
     "UDX.EDXF.TENDER_TEXT", "REMARKS"}
ProductTags == LanguageTags \cup TextTags

\* findtext(".//TAG"): None without a match, "" for a match without text
findtext(elements) ==
    IF elements = <<>> THEN JNull
    ELSE IF elements[1].text = JNull THEN JStr(<<>>)
    ELSE elements[1].text

\* int(text): whitespace around the number, a sign, and single underscores
\* between digits are accepted; anything else raises ValueError.
IsIntegerText(s) ==
    LET b == strip(s)
        body == IF b # <<>> /\ Head(b) \in {"+", "-"} THEN Tail(b) ELSE b
    IN /\ body # <<>>
       /\ \A i \in 1..Len(body) : IsDigit(body[i]) \/ body[i] = "_"
       /\ IsDigit(body[1]) /\ IsDigit(body[Len(body)])
       /\ \A i \in 1..(Len(body) - 1) : ~(body[i] = "_" /\ body[i + 1] = "_")
int(s) ==
    IF IsIntegerText(s)
    THEN LET b == strip(s)
             n == DigitsValue(SelectSeq(b, IsDigit))
         IN Returned(JNum(IF Head(b) = "-" THEN 0 - n ELSE n))
    ELSE Raised("ValueError")

\* str.isdigit()
isdigit(s) == s # <<>> /\ \A i \in 1..Len(s) : IsDigit(s[i])

\* Mutant: a text that begins with "-" is a value like any other.
typed_val_nosentinel(element, val_type) ==
    IF val_type = "bool" THEN Returned(JBool(lower(element) = <<"t", "r", "u", "e">>))
    ELSE IF val_type = "int"
    THEN (IF element # <<>> THEN int(element) ELSE Returned(JNull))
    ELSE Returned(JStr(element))

\* 65-75 and 116-126: the stripped text as a value of val_type ("str",
\* "bool" or "int"): Returned(value), or Raised
typed_val(element, val_type) ==
    IF startswith(element, <<"-">>) THEN Returned(JNull)
    ELSE IF val_type = "bool" THEN Returned(JBool(lower(element) = <<"t", "r", "u", "e">>))
    ELSE IF val_type = "int"
    THEN (IF element # <<>> THEN int(element) ELSE Returned(JNull))
    ELSE Returned(JStr(element))

\* get_val (47-76), on the elements the tag matches: Returned(value), or
\* Raised
get_val_type(elements, val_type) ==
    LET element == findtext(elements)
    IN IF element # JNull
       THEN typed_val(strip(element.v), val_type)
       ELSE Returned(JNull)

\* get_val with val_type=str, which never raises
get_val(elements) == get_val_type(elements, "str").value

\* The attribute filters get_val_attr is called with: no_lang=True,
\* lang=..., and none.
NoLang == [no_lang |-> TRUE, has_lang |-> FALSE, lang |-> <<>>]
Lang(lang) == [no_lang |-> FALSE, has_lang |-> TRUE, lang |-> PyStr(lang)]
NoAttributes == [no_lang |-> FALSE, has_lang |-> FALSE, lang |-> <<>>]

\* get_val_attr (78-128), on the elements the tag matches: Returned(value),
\* or Raised
get_val_attr_type(elements, val_type, attributes) ==
    LET Matches(e) ==
            /\ attributes.no_lang => e.lang = JNull
            /\ attributes.has_lang => e.lang = JStr(attributes.lang)
            /\ e.text # JNull
        xpath_val == SelectSeq(elements, Matches)
    IN IF xpath_val # <<>>
       THEN typed_val(strip(xpath_val[1].text.v), val_type)
       ELSE Returned(JNull)

\* get_val_attr with val_type=str, which never raises
get_val_attr(elements, attributes) == get_val_attr_type(elements, "str", attributes).value

\* Mutant: the default="true" flag is not looked at.
DefaultLangXPath_unflagged(header) == <<>>

\* 274: the text nodes of the LANGUAGE elements whose default is "true"
DefaultLangXPath(header) ==
    LET Flagged(e) == e.default = JStr(<<"t", "r", "u", "e">>) /\ e.text # JNull
        flagged == SelectSeq(header.LANGUAGE, Flagged)
    IN [i \in 1..Len(flagged) |-> flagged[i].text]

\* 274-280
DefaultLanguage(header) ==
    IF DefaultLangXPath(header) # <<>>
    THEN DefaultLangXPath(header)[1]
    ELSE IF findtext(header.LANGUAGE) # JNull
    THEN get_val(header.LANGUAGE)
    ELSE JNull

\* 294-301: Returned(the records appended to target), or Raised
append_multilingual_elements(elements, entry_key, default_lang) ==
    LET language ==
            [i \in 1..Len(elements) |->
                IF elements[i].lang # JNull
                THEN convert_to_language_region_code(elements[i].lang)
                ELSE Returned(default_lang)]
    IN IF \E i \in 1..Len(elements) : language[i].raised
       THEN Raised("ValueError")
       ELSE Returned(JList(
                [i \in 1..Len(elements) |->
                    JDict(<<Entry("Language", language[i].value),
                            Entry(entry_key, elements[i].text)>>)]))

\* 717-719 and 741-742: the texts of the KEYWORD elements whose lang
\* attribute is one of langs
Keywords(elements, langs) ==
    LET HasText(kw) == kw.text # JNull /\ strip(kw.text.v) # <<>> /\ kw.lang \in langs
        kept == SelectSeq(elements, HasText)
    IN JList([i \in 1..Len(kept) |-> JStr(strip(kept[i].text.v))])

\* Mutant: the long description is tried first.
MinimalProductDescription_longfirst(BMECAT_PRODUCT, default_code) ==
    PyOr(get_val_attr(BMECAT_PRODUCT["DESCRIPTION_LONG"], Lang(default_code)),
    PyOr(get_val_attr(BMECAT_PRODUCT["UDX.EDXF.DESCRIPTION_VERY_SHORT"], NoLang),
    PyOr(get_val_attr(BMECAT_PRODUCT["DESCRIPTION_SHORT"], NoLang),
         get_val_attr(BMECAT_PRODUCT["UDX.EDXF.DESCRIPTION_VERY_SHORT"], Lang(default_code)))))

\* 703-706
MinimalProductDescription(BMECAT_PRODUCT, default_code) ==
    PyOr(get_val_attr(BMECAT_PRODUCT["UDX.EDXF.DESCRIPTION_VERY_SHORT"], NoLang),
    PyOr(get_val_attr(BMECAT_PRODUCT["DESCRIPTION_SHORT"], NoLang),
    PyOr(get_val_attr(BMECAT_PRODUCT["UDX.EDXF.DESCRIPTION_VERY_SHORT"], Lang(default_code)),
         get_val_attr(BMECAT_PRODUCT["DESCRIPTION_LONG"], Lang(default_code)))))

\* Mutant: the short description labelled with the default language is
\* tried first.
UniqueMainProductDescription_labelledfirst(BMECAT_PRODUCT, default_code) ==
    PyOr(get_val_attr(BMECAT_PRODUCT["DESCRIPTION_SHORT"], Lang(default_code)),
         get_val_attr(BMECAT_PRODUCT["DESCRIPTION_SHORT"], NoLang))

\* 707-708
UniqueMainProductDescription(BMECAT_PRODUCT, default_code) ==
    PyOr(get_val_attr(BMECAT_PRODUCT["DESCRIPTION_SHORT"], NoLang),
         get_val_attr(BMECAT_PRODUCT["DESCRIPTION_SHORT"], Lang(default_code)))

\* 702-721: the description in the default language
DefaultDescription(BMECAT_PRODUCT, default_code, default_tag) ==
    JDict(<<
        Entry("DescriptionLanguage", default_tag),
        Entry("MinimalProductDescription",
              MinimalProductDescription(BMECAT_PRODUCT, default_code)),
        Entry("UniqueMainProductDescription",
              UniqueMainProductDescription(BMECAT_PRODUCT, default_code)),
        Entry("FullProductDescription",
              PyOr(get_val_attr(BMECAT_PRODUCT["DESCRIPTION_LONG"], NoLang),
                   get_val_attr(BMECAT_PRODUCT["DESCRIPTION_LONG"], Lang(default_code)))),
        Entry("ProductSpecificationText",
              PyOr(get_val_attr(BMECAT_PRODUCT["UDX.EDXF.TENDER_TEXT"], NoLang),
                   get_val_attr(BMECAT_PRODUCT["UDX.EDXF.TENDER_TEXT"], Lang(default_code)))),
        Entry("ProductApplicationInstructions",
              PyOr(get_val_attr(BMECAT_PRODUCT["REMARKS"], NoLang),
                   get_val_attr(BMECAT_PRODUCT["REMARKS"], Lang(default_code)))),
        Entry("ProductKeyword", Keywords(BMECAT_PRODUCT["KEYWORD"], {JNull, default_code}))>>)

\* 730-744: the description in another declared language
LanguageDescription(BMECAT_PRODUCT, lang) ==
    JDict(<<
        Entry("DescriptionLanguage", convert_to_language_region_code(lang).value),
        Entry("MinimalProductDescription",
              PyOr(get_val_attr(BMECAT_PRODUCT["UDX.EDXF.DESCRIPTION_VERY_SHORT"], Lang(lang)),
              PyOr(get_val_attr(BMECAT_PRODUCT["DESCRIPTION_SHORT"], Lang(lang)),
              PyOr(get_val_attr(BMECAT_PRODUCT["UDX.EDXF.DESCRIPTION_VERY_SHORT"], NoAttributes),
                   get_val_attr(BMECAT_PRODUCT["DESCRIPTION_LONG"], NoAttributes))))),
        Entry("UniqueMainProductDescription",
              get_val_attr(BMECAT_PRODUCT["DESCRIPTION_SHORT"], Lang(lang))),
        Entry("FullProductDescription",
              get_val_attr(BMECAT_PRODUCT["DESCRIPTION_LONG"], Lang(lang))),
        Entry("ProductSpecificationText",
              get_val_attr(BMECAT_PRODUCT["UDX.EDXF.TENDER_TEXT"], Lang(lang))),
        Entry("ProductApplicationInstructions",
              get_val_attr(BMECAT_PRODUCT["REMARKS"], Lang(lang))),
        Entry("ProductKeyword", Keywords(BMECAT_PRODUCT["KEYWORD"], {JStr(PyStr(lang))}))>>)

\* 701-744
ProductDescriptions(BMECAT_PRODUCT, default_code, default_tag, languages) ==
    LET Other(lang) == Truthy(lang) /\ lang # default_code
        others == SelectSeq(languages, Other)
    IN IF \E i \in 1..Len(others) : convert_to_language_region_code(others[i]).raised
       THEN Raised("ValueError")
       ELSE Returned(JList(
                <<DefaultDescription(BMECAT_PRODUCT, default_code, default_tag)>>
                \o [i \in 1..Len(others) |-> LanguageDescription(BMECAT_PRODUCT, others[i])]))

\* 799-818: one attachment for each UDX.EDXF.MIME, here its MIME_SOURCE
ProductAttachments(BMECAT_PRODUCT, default_tag) ==
    LET sources == BMECAT_PRODUCT["UDX.EDXF.MIME_SOURCE"]
        language == [i \in 1..Len(sources) |-> convert_to_language_region_code(sources[i].lang)]
    IN IF \E i \in 1..Len(sources) : language[i].raised
       THEN Raised("ValueError")
       ELSE Returned(JList(
                [i \in 1..Len(sources) |->
                    JDict(<<Entry("AttachmentDetails", JList(<<JDict(<<
                        Entry("AttachmentLanguage",
                              JList(<<PyOr(language[i].value, default_tag)>>)),
                        Entry("AttachmentUri", get_val(<<sources[i]>>))>>)>>))>>)]))

\* 843-913: the FVALUE_DETAILS are those of one FEATURE of one
\* PRODUCT_FEATURES; a product without them has no PRODUCT_FEATURES
EtimClassification(BMECAT_PRODUCT, default_tag) ==
    LET details == BMECAT_PRODUCT["FVALUE_DETAILS"]
        EtimValueDetails == append_multilingual_elements(details, "EtimValueDetails", default_tag)
    IN IF details = <<>> THEN Returned(JList(<<>>))
       ELSE IF EtimValueDetails.raised THEN Raised("ValueError")
       ELSE Returned(JList(<<JDict(<<
                Entry("EtimFeatures", JList(<<JDict(<<
                    Entry("EtimValueDetails", EtimValueDetails.value),
                    Entry("ReasonNoValue", get_val(details))>>)>>))>>)>>))

\* 929-953 and 1058-1082: the names are those of one PRODUCT_CHARACTERISTIC;
\* a product without them has no PRODUCT_CHARACTERISTIC.  The loop of the
\* product and the loop of the trade item append an entry each.
ProductCountrySpecificFields(BMECAT_PRODUCT, default_tag) ==
    LET names == BMECAT_PRODUCT["UDX.EDXF.PRODUCT_CHARACTERISTIC_NAME"]
        CSProductCharacteristicName ==
            append_multilingual_elements(names, "CSProductCharacteristicName", default_tag)
    IN IF names = <<>> THEN Returned(JList(<<>>))
       ELSE IF CSProductCharacteristicName.raised THEN Raised("ValueError")
       ELSE Returned(JList(<<
                JDict(<<Entry("CSProductCharacteristicName", CSProductCharacteristicName.value)>>),
                JDict(<<Entry("CSProductCharacteristicName", CSProductCharacteristicName.value)>>)>>))

\* 651-1117, one iteration: Returned(Product), or Raised
ConvertProduct(BMECAT_PRODUCT, default_code, default_tag, languages) ==
    LET descriptions == ProductDescriptions(BMECAT_PRODUCT, default_code, default_tag, languages)
        attachments == ProductAttachments(BMECAT_PRODUCT, default_tag)
        classifications == EtimClassification(BMECAT_PRODUCT, default_tag)
        characteristics == ProductCountrySpecificFields(BMECAT_PRODUCT, default_tag)
    IN IF \/ descriptions.raised
          \/ attachments.raised
          \/ classifications.raised
          \/ characteristics.raised
       THEN Raised("ValueError")
       ELSE Returned(JDict(<<
                Entry("ProductDetails",
                      JDict(<<Entry("ProductDescriptions", descriptions.value)>>)),
                Entry("ProductAttachments", attachments.value),
                Entry("EtimClassification", classifications.value),
                Entry("ProductCountrySpecificFields", characteristics.value)>>))

\* d[key] = value, for a key d has
SetKey(d, key, value) ==
    JDict([i \in 1..Len(d.v) |-> IF d.v[i].k = key THEN Entry(key, value) ELSE d.v[i]])

\* 1117: xChange["Supplier"][0]["Product"].append(Product)
AppendProduct(doc, Product) ==
    LET Supplier == Get(doc, "Supplier").v[1]
    IN SetKey(doc, "Supplier",
              JList(<<SetKey(Supplier, "Product",
                             JList(Append(Get(Supplier, "Product").v, Product)))>>))

\* No file at the output path.
NoFile == [t |-> "nofile", v |-> 0]

\* The header LANGUAGE elements the model draws from: with and without the
\* default flag, with a supported code, with whitespace and capitals around
\* it, without text, and with a code the table does not have.
LanguageElements ==
    {LanguageElement(JStr(<<"e", "n", "g">>), JNull),
     LanguageElement(JStr(<<" ", "G", "E", "R", " ">>), JNull),
     LanguageElement(JStr(<<" ", "G", "E", "R", " ">>), JStr(<<"t", "r", "u", "e">>)),
     LanguageElement(JNull, JStr(<<"t", "r", "u", "e">>)),
     LanguageElement(JStr(<<"x", "y", "z">>), JNull)}
Headers ==
    {[LANGUAGE |-> entries] :
        entries \in UNION {[1..n -> LanguageElements] : n \in 0..MaxLanguages}}

\* The products the model draws from have at most one language-bearing
\* element: with a code the table does not have under each tag, without lang
\* attribute, or with a supported code.
NoElements == [tag \in ProductTags |-> <<>>]
WithElement(name, lang) ==
    [tag \in ProductTags |-> IF tag = name THEN <<Element(lang, JStr(<<"T">>))>> ELSE <<>>]
Products ==
    {NoElements}
    \cup {WithElement(tag, JStr(<<"x", "y", "z">>)) : tag \in LanguageTags}
    \cup {WithElement(tag, JNull) : tag \in {"DESCRIPTION_SHORT", "UDX.EDXF.MIME_SOURCE"}}
    \cup {WithElement("FVALUE_DETAILS", JStr(<<"e", "n", "g">>))}
Catalogs == UNION {[1..n -> Products] : n \in 0..MaxProducts}

(***************************************************************************)
(* SpecClean: clean_json applied once and then again to its own result.    *)
(***************************************************************************)
InitClean ==
    /\ pc = "clean"
    /\ data \in JsonTrees(MaxNodes)
    /\ cleaned = Unused
    /\ recleaned = Unused
    /\ FeatureUnused /\ LanguageUnused /\ ConvertUnused
    /\ ElementUnused
    /\ ProductUnused
    /\ ServerUnused

CleanOnce ==
    /\ pc = "clean"
    /\ cleaned' = clean_json(data)
    /\ pc' = "cleaned"
    /\ UNCHANGED <<data, recleaned, featureVars, languageVars, convertVars>>
    /\ UNCHANGED elementVars
    /\ UNCHANGED productVars
    /\ UNCHANGED serverVars

CleanAgain ==
    /\ pc = "cleaned"
    /\ recleaned' = clean_json(cleaned)
    /\ pc' = "recleaned"
    /\ UNCHANGED <<data, cleaned, featureVars, languageVars, convertVars>>
    /\ UNCHANGED elementVars
    /\ UNCHANGED productVars
    /\ UNCHANGED serverVars

NextClean == CleanOnce \/ CleanAgain

SpecClean == InitClean /\ [][NextClean]_vars

(***************************************************************************)
(* SpecFeature: process_feature_values applied to the FVALUE texts of one  *)
(* FEATURE element.                                                        *)
(***************************************************************************)
InitFeature ==
    /\ pc = "feature"
    /\ FEATURE \in FValueLists
    /\ result = Unused
    /\ CleanUnused /\ LanguageUnused /\ ConvertUnused
    /\ ElementUnused
    /\ ProductUnused
    /\ ServerUnused

ProcessFeatureValues ==
    /\ pc = "feature"
    /\ result' = process_feature_values(FEATURE)
    /\ pc' = "classified"
    /\ UNCHANGED <<FEATURE, cleanVars, languageVars, convertVars>>
    /\ UNCHANGED elementVars
    /\ UNCHANGED productVars
    /\ UNCHANGED serverVars

NextFeature == ProcessFeatureValues

SpecFeature == InitFeature /\ [][NextFeature]_vars

(***************************************************************************)
(* SpecLanguage: convert_to_language_region_code applied to one code.      *)
(***************************************************************************)
InitLanguage ==
    /\ pc = "resolve"
    /\ lang_code \in IsoCodes
    /\ resolved = Unused
    /\ CleanUnused /\ FeatureUnused /\ ConvertUnused
    /\ ElementUnused
    /\ ProductUnused
    /\ ServerUnused

ResolveLanguage ==
    /\ pc = "resolve"
    /\ resolved' = convert_to_language_region_code(lang_code)
    /\ pc' = "resolved"
    /\ UNCHANGED <<lang_code, cleanVars, featureVars, convertVars>>
    /\ UNCHANGED elementVars
    /\ UNCHANGED productVars
    /\ UNCHANGED serverVars

NextLanguage == ResolveLanguage

SpecLanguage == InitLanguage /\ [][NextLanguage]_vars

(***************************************************************************)
(* SpecConvert: convert_file (converter.py 1199-1220) on one document:     *)
(* convert_BMEcat decides the default language, reads the header           *)
(* languages, appends the supplier and converts the products one by one;   *)
(* then the pruned document is written.  An exception raised on the way    *)
(* ends the run.                                                           *)
(***************************************************************************)
InitConvert ==
    /\ pc = "default_language"
    /\ HEADER \in Headers
    /\ CATALOG \in Catalogs
    /\ DefaultLangBMEcat = Unused
    /\ DefaultLangxChange = Unused
    /\ LANGUAGEs = <<>>
    /\ xChange = JDict(<<Entry("Language", JList(<<>>)), Entry("Supplier", JList(<<>>))>>)
    /\ product_counter = 0
    /\ output_file = NoFile
    /\ CleanUnused /\ FeatureUnused /\ LanguageUnused
    /\ ElementUnused
    /\ ProductUnused
    /\ ServerUnused

\* 273-281
DecideDefaultLanguage ==
    /\ pc = "default_language"
    /\ \E code \in {DefaultLanguage(HEADER)} :
       \E tag \in {convert_to_language_region_code(code)} :
          /\ DefaultLangBMEcat' = code
          /\ IF tag.raised
             THEN pc' = "raised" /\ UNCHANGED DefaultLangxChange
             ELSE pc' = "languages" /\ DefaultLangxChange' = tag.value
    /\ UNCHANGED <<HEADER, CATALOG, LANGUAGEs, xChange, product_counter, output_file>>
    /\ UNCHANGED <<cleanVars, featureVars, languageVars>>
    /\ UNCHANGED elementVars
    /\ UNCHANGED productVars
    /\ UNCHANGED serverVars

\* 284-291
CatalogLanguages ==
    /\ pc = "languages"
    /\ LET texts == [i \in 1..Len(HEADER.LANGUAGE) |-> HEADER.LANGUAGE[i].text]
           tags == [i \in 1..Len(texts) |-> convert_to_language_region_code(texts[i])]
       IN IF findtext(HEADER.LANGUAGE) # JNull
          THEN IF \E i \in 1..Len(tags) : tags[i].raised
               THEN LET first == CHOOSE i \in 1..Len(tags) :
                                    tags[i].raised /\ \A j \in 1..(i - 1) : ~tags[j].raised
                    IN /\ pc' = "raised"
                       /\ LANGUAGEs' = SubSeq(texts, 1, first)
                       /\ xChange' = SetKey(xChange, "Language",
                                            JList([i \in 1..(first - 1) |-> tags[i].value]))
               ELSE /\ pc' = "supplier"
                    /\ LANGUAGEs' = texts
                    /\ xChange' = SetKey(xChange, "Language",
                                         JList([i \in 1..Len(tags) |-> tags[i].value]))
          ELSE /\ pc' = "supplier"
               /\ LANGUAGEs' = <<>>
               /\ xChange' = SetKey(xChange, "Language", JList(<<DefaultLangxChange>>))
    /\ UNCHANGED <<HEADER, CATALOG, DefaultLangBMEcat, DefaultLangxChange,
                   product_counter, output_file>>
    /\ UNCHANGED <<cleanVars, featureVars, languageVars>>
    /\ UNCHANGED elementVars
    /\ UNCHANGED productVars
    /\ UNCHANGED serverVars

\* 308-315 and 646
AppendSupplier ==
    /\ pc = "supplier"
    /\ xChange' = SetKey(xChange, "Supplier",
                         JList(<<JDict(<<Entry("Product", JList(<<>>))>>)>>))
    /\ pc' = "products"
    /\ UNCHANGED <<HEADER, CATALOG, DefaultLangBMEcat, DefaultLangxChange, LANGUAGEs,
                   product_counter, output_file>>
    /\ UNCHANGED <<cleanVars, featureVars, languageVars>>
    /\ UNCHANGED elementVars
    /\ UNCHANGED productVars
    /\ UNCHANGED serverVars

\* 651-1117, one iteration of the loop over the products
ProcessProduct ==
    /\ pc = "products"
    /\ product_counter < Len(CATALOG)
    /\ \E Product \in {ConvertProduct(CATALOG[product_counter + 1],
                                       DefaultLangBMEcat, DefaultLangxChange, LANGUAGEs)} :
          IF Product.raised
          THEN pc' = "raised" /\ UNCHANGED xChange
          ELSE pc' = "products" /\ xChange' = AppendProduct(xChange, Product.value)
    /\ product_counter' = product_counter + 1
    /\ UNCHANGED <<HEADER, CATALOG, DefaultLangBMEcat, DefaultLangxChange, LANGUAGEs,
                   output_file>>
    /\ UNCHANGED <<cleanVars, featureVars, languageVars>>
    /\ UNCHANGED elementVars
    /\ UNCHANGED productVars
    /\ UNCHANGED serverVars

\* 1125-1127 and 1203-1213: the document is returned, pruned and written
WriteOutput ==
    /\ pc = "products"
    /\ product_counter = Len(CATALOG)
    /\ output_file' = clean_json(xChange)
    /\ pc' = "written"
    /\ UNCHANGED <<HEADER, CATALOG, DefaultLangBMEcat, DefaultLangxChange, LANGUAGEs,
                   xChange, product_counter>>
    /\ UNCHANGED <<cleanVars, featureVars, languageVars>>
    /\ UNCHANGED elementVars
    /\ UNCHANGED productVars
    /\ UNCHANGED serverVars

NextConvert ==
    \/ DecideDefaultLanguage
    \/ CatalogLanguages
    \/ AppendSupplier
    \/ ProcessProduct
    \/ WriteOutput

SpecConvert == InitConvert /\ [][NextConvert]_vars

(***************************************************************************)
(* SpecDescription: convert_file on a document of one product that has up  *)
(* to MaxElements description texts, under a header that flags its first   *)
(* language as the default, one that flags none, and one that declares no  *)
(* language.                                                               *)
(***************************************************************************)
DescriptionHeaders ==
    {[LANGUAGE |-> <<LanguageElement(JStr(<<"g", "e", "r">>), JStr(<<"t", "r", "u", "e">>)),
                     LanguageElement(JStr(<<"e", "n", "g">>), JNull)>>],
     [LANGUAGE |-> <<LanguageElement(JStr(<<"e", "n", "g">>), JNull),
                     LanguageElement(JStr(<<"g", "e", "r">>), JNull)>>],
     [LANGUAGE |-> <<>>]}

\* The lang attributes of the elements of one tag, in document order, and
\* the places an element can stand at: a tag and one of these.
ElementLangs == <<JStr(<<"e", "n", "g">>), JNull, JStr(<<"g", "e", "r">>)>>
Slots == TextTags \X (1..Len(ElementLangs))

\* The text of an element is one that tells where it stands, the sentinel,
\* or blank, each with whitespace around it; the tender texts and remarks
\* the model draws from all have a text of the first kind.
TextKinds == {"text", "sentinel", "blank"}
KindsAt(place) ==
    IF place[1] \in {"UDX.EDXF.TENDER_TEXT", "REMARKS"} THEN {"text"} ELSE TextKinds
TagLetter(tag) ==
    CASE tag = "UDX.EDXF.DESCRIPTION_VERY_SHORT" -> "V"
      [] tag = "DESCRIPTION_SHORT" -> "S"
      [] tag = "DESCRIPTION_LONG" -> "L"
      [] tag = "UDX.EDXF.TENDER_TEXT" -> "T"
      [] tag = "REMARKS" -> "R"
SlotText(tag, l, kind) ==
    CASE kind = "text" -> JStr(<<" ", TagLetter(tag), DigitChars[l + 1], "\n">>)
      [] kind = "sentinel" -> JStr(<<" ", "-", " ">>)
      [] kind = "blank" -> JStr(<<" ">>)

\* The product whose elements stand at the places of DOMAIN kinds.
DescribedProduct(kinds) ==
    [tag \in ProductTags |->
        LET Present(l) == <<tag, l>> \in DOMAIN kinds
            present == SelectSeq([l \in 1..Len(ElementLangs) |-> l], Present)
        IN [i \in 1..Len(present) |->
               Element(ElementLangs[present[i]],
                       SlotText(tag, present[i], kinds[<<tag, present[i]>>]))]]
DescribedProducts(maxElements) ==
    UNION {{DescribedProduct(kinds) :
               kinds \in {k \in [places -> TextKinds] :
                             \A place \in places : k[place] \in KindsAt(place)}} :
              places \in {S \in SUBSET Slots : Cardinality(S) <= maxElements}}

InitDescription ==
    /\ pc = "default_language"
    /\ HEADER \in DescriptionHeaders
    /\ CATALOG \in {<<BMECAT_PRODUCT>> : BMECAT_PRODUCT \in DescribedProducts(MaxElements)}
    /\ DefaultLangBMEcat = Unused
    /\ DefaultLangxChange = Unused
    /\ LANGUAGEs = <<>>
    /\ xChange = JDict(<<Entry("Language", JList(<<>>)), Entry("Supplier", JList(<<>>))>>)
    /\ product_counter = 0
    /\ output_file = NoFile
    /\ CleanUnused /\ FeatureUnused /\ LanguageUnused
    /\ ElementUnused
    /\ ProductUnused
    /\ ServerUnused

SpecDescription == InitDescription /\ [][NextConvert]_vars

(***************************************************************************)
(* PRODUCT_REFERENCE (converter.py 423-472, 749-755, 1003-1010).  A         *)
(* reference is its type and quantity attributes (JNull for one it does    *)
(* not have) and its PROD_ID_TO elements.                                  *)
(***************************************************************************)
\* 445-466
RELATION_TYPE_MAPPING ==
       <<"a", "c", "c", "e", "s", "s", "o", "r", "i", "e", "s">> :> <<"A", "C", "C", "E", "S", "S", "O", "R", "Y">>
    @@ <<"b", "a", "s", "e", "_", "p", "r", "o", "d", "u", "c", "t">> :> <<"M", "A", "I", "N", "_", "P", "R", "O", "D", "U", "C", "T">>
    @@ <<"c", "o", "n", "s", "i", "s", "t", "s", "_", "o", "f">> :> <<"C", "O", "N", "S", "I", "S", "T", "S", "_", "O", "F">>
    @@ <<"f", "o", "l", "l", "o", "w", "u", "p">> :> <<"S", "U", "C", "C", "E", "S", "S", "O", "R">>
    @@ <<"m", "a", "n", "d", "a", "t", "o", "r", "y">> :> <<"M", "A", "N", "D", "A", "T", "O", "R", "Y">>
    @@ <<"s", "i", "m", "i", "l", "a", "r">> :> <<"S", "I", "M", "I", "L", "A", "R">>
    @@ <<"s", "e", "l", "e", "c", "t">> :> <<"S", "E", "L", "E", "C", "T">>
    @@ <<"s", "p", "a", "r", "e", "p", "a", "r", "t">> :> <<"S", "P", "A", "R", "E", "P", "A", "R", "T">>
    @@ <<"o", "t", "h", "e", "r", "s">> :> <<"O", "T", "H", "E", "R">>
    @@ <<"a", "c", "c", "e", "s", "s", "o", "r", "y">> :> <<"A", "C", "C", "E", "S", "S", "O", "R", "Y">>
    @@ <<"m", "a", "i", "n">> :> <<"M", "A", "I", "N", "_", "P", "R", "O", "D", "U", "C", "T">>
    @@ <<"c", "o", "m", "p", "o", "n", "e", "n", "t">> :> <<"C", "O", "N", "S", "I", "S", "T", "S", "_", "O", "F">>
    @@ <<"s", "u", "c", "c", "e", "s", "s", "o", "r">> :> <<"S", "U", "C", "C", "E", "S", "S", "O", "R">>
    @@ <<"s", "p", "a", "r", "e">> :> <<"S", "P", "A", "R", "E", "P", "A", "R", "T">>
    @@ <<"s", "p", "a", "r", "e", "_", "p", "a", "r", "t">> :> <<"S", "P", "A", "R", "E", "P", "A", "R", "T">>
    @@ <<"o", "t", "h", "e", "r">> :> <<"O", "T", "H", "E", "R">>

\* Mutant: a type the table does not have is "OTHER".
map_relation_type_other(reference_type) ==
    IF reference_type = JNull THEN JNull
    ELSE IF strip(lower(reference_type.v)) \in DOMAIN RELATION_TYPE_MAPPING
    THEN JStr(RELATION_TYPE_MAPPING[strip(lower(reference_type.v))])
    ELSE JStr(<<"O", "T", "H", "E", "R">>)

\* 423-472
map_relation_type(reference_type) ==
    IF reference_type = JNull THEN JNull
    ELSE IF strip(lower(reference_type.v)) \in DOMAIN RELATION_TYPE_MAPPING
    THEN JStr(RELATION_TYPE_MAPPING[strip(lower(reference_type.v))])
    ELSE JNull

\* 753 and 1008
RelationType(type) ==
    IF type # JNull THEN map_relation_type(type) ELSE JStr(<<"O", "T", "H", "E", "R">>)

\* Mutant: a reference without quantity attribute has the quantity 0.
RelatedQuantity_zero(quantity) ==
    IF quantity # JNull THEN int(quantity.v) ELSE Returned(JNum(0))

\* 754 and 1009: Returned(the quantity), or Raised
RelatedQuantity(quantity) ==
    IF quantity # JNull THEN int(quantity.v) ELSE Returned(JNum(1))

\* 750-755: Returned(the relation), or Raised
ProductRelation(PRODUCT_REFERENCE) ==
    IF RelatedQuantity(PRODUCT_REFERENCE.quantity).raised THEN Raised("ValueError")
    ELSE Returned(JDict(<<
             Entry("RelatedManufacturerProductNumber", get_val(PRODUCT_REFERENCE.PROD_ID_TO)),
             Entry("RelationType", RelationType(PRODUCT_REFERENCE.type)),
             Entry("RelatedProductQuantity",
                   RelatedQuantity(PRODUCT_REFERENCE.quantity).value)>>))

\* 1004-1010: Returned(the relation), or Raised
ItemRelation(ITEM_REFERENCE) ==
    IF RelatedQuantity(ITEM_REFERENCE.quantity).raised THEN Raised("ValueError")
    ELSE Returned(JDict(<<
             Entry("RelatedSupplierItemNumber", get_val(ITEM_REFERENCE.PROD_ID_TO)),
             Entry("RelationType", RelationType(ITEM_REFERENCE.type)),
             Entry("RelatedItemQuantity", RelatedQuantity(ITEM_REFERENCE.quantity).value)>>))

\* The type attributes the model draws from: none, each type of the table
\* as written and in capitals with whitespace around it, and types the
\* table does not have.
ReferenceTypes ==
    {JNull}
    \cup {JStr(type) : type \in DOMAIN RELATION_TYPE_MAPPING}
    \cup {JStr(<<" ">> \o upper(type) \o <<"\n">>) : type \in DOMAIN RELATION_TYPE_MAPPING}
    \cup {JStr(<<>>), JStr(<<"x", "y", "z">>), JStr(<<"a", "c", "c", "e", "s", "s", "o", "i", "r", "e", "s">>), JStr(<<"s", "p", "a", "r", "e", " ", "p", "a", "r", "t">>)}

\* The quantity attributes the model draws from: none, integers, and texts
\* that are not integers.
ReferenceQuantities ==
    {JNull, JStr(<<"1">>), JStr(<<"5">>), JStr(<<" ", "1", "2", " ">>), JStr(<<"0">>), JStr(<<"+", "4">>), JStr(<<"-", "3">>),
     JStr(<<"0", "0", "7">>), JStr(<<>>), JStr(<<" ">>), JStr(<<"a", "b", "c">>), JStr(<<"2", ".", "5">>), JStr(<<"1", "e", "3">>),
     JStr(<<"5", " ", "p", "c", "s">>)}

References ==
    {[type |-> type, quantity |-> quantity, PROD_ID_TO |-> <<Element(JNull, JStr(<<"A", "1">>))>>] :
        type \in ReferenceTypes, quantity \in ReferenceQuantities}

(***************************************************************************)
(* SpecReference: one PRODUCT_REFERENCE of a product is converted to the   *)
(* product's relation and to the trade item's relation, and the relations  *)
(* are pruned as the document is.                                          *)
(***************************************************************************)
InitReference ==
    /\ pc = "reference"
    /\ REFERENCE \in References
    /\ MIME = Unused /\ XML_root = Unused /\ target_field = Unused /\ type_asked = Unused
    /\ filter_asked = Unused
    /\ returned = Unused
    /\ CleanUnused /\ FeatureUnused /\ LanguageUnused /\ ConvertUnused
    /\ ProductUnused
    /\ ServerUnused

\* 749-755 and 1003-1010
ConvertReference ==
    /\ pc = "reference"
    /\ \E product \in {ProductRelation(REFERENCE)} :
       \E item \in {ItemRelation(REFERENCE)} :
          IF product.raised \/ item.raised
          THEN pc' = "raised" /\ returned' = Raised("ValueError")
          ELSE /\ pc' = "related"
               /\ returned' = Returned(JDict(<<
                      Entry("ProductRelations", JList(<<product.value>>)),
                      Entry("ItemRelations", JList(<<item.value>>))>>))
    /\ UNCHANGED <<REFERENCE, MIME, XML_root, target_field, type_asked, filter_asked>>
    /\ UNCHANGED <<cleanVars, featureVars, languageVars, convertVars>>
    /\ UNCHANGED productVars
    /\ UNCHANGED serverVars

\* 1203-1213: the pruning of the document, on the relations
CleanRelations ==
    /\ pc = "related"
    /\ cleaned' = clean_json(returned.value)
    /\ pc' = "pruned"
    /\ UNCHANGED <<data, recleaned, featureVars, languageVars, convertVars, elementVars>>
    /\ UNCHANGED productVars
    /\ UNCHANGED serverVars

NextReference == ConvertReference \/ CleanRelations

SpecReference == InitReference /\ [][NextReference]_vars

(***************************************************************************)
(* Attachments (converter.py 318-421 and 627-629, 799-801, 820-823,        *)
(* 1041-1043).  A MIME element maps the tags of its children to their      *)
(* elements.                                                               *)
(***************************************************************************)
\* 328-412
ATTACHMENT_CODE_MAPPING ==
       <<"M", "D", "0", "1">> :> <<"A", "T", "X", "0", "1", "5">>
    @@ <<"M", "D", "0", "2">> :> <<"A", "T", "X", "0", "1", "8">>
    @@ <<"M", "D", "2", "0">> :> <<"A", "T", "X", "0", "1", "8">>
    @@ <<"M", "D", "2", "3">> :> <<"A", "T", "X", "0", "1", "8">>
    @@ <<"M", "D", "2", "4">> :> <<"A", "T", "X", "0", "1", "8">>
    @@ <<"M", "D", "2", "5">> :> <<"A", "T", "X", "0", "1", "8">>
    @@ <<"M", "D", "2", "6">> :> <<"A", "T", "X", "0", "1", "8">>
    @@ <<"M", "D", "2", "7">> :> <<"A", "T", "X", "0", "1", "8">>
    @@ <<"M", "D", "2", "8">> :> <<"A", "T", "X", "0", "1", "8">>
    @@ <<"M", "D", "2", "9">> :> <<"A", "T", "X", "0", "1", "8">>
    @@ <<"M", "D", "3", "0">> :> <<"A", "T", "X", "0", "1", "8">>
    @@ <<"M", "D", "4", "7">> :> <<"A", "T", "X", "0", "1", "8">>
    @@ <<"M", "D", "4", "8">> :> <<"A", "T", "X", "0", "1", "8">>
    @@ <<"M", "D", "5", "9">> :> <<"A", "T", "X", "0", "1", "8">>
    @@ <<"M", "D", "6", "5">> :> <<"A", "T", "X", "0", "1", "8">>
    @@ <<"M", "D", "0", "3">> :> <<"A", "T", "X", "0", "1", "9">>
    @@ <<"M", "D", "0", "7">> :> <<"A", "T", "X", "0", "0", "3">>
    @@ <<"M", "D", "1", "9">> :> <<"A", "T", "X", "0", "0", "3">>
    @@ <<"M", "D", "2", "2">> :> <<"A", "T", "X", "0", "0", "3">>
    @@ <<"M", "D", "3", "2">> :> <<"A", "T", "X", "0", "0", "3">>
    @@ <<"M", "D", "4", "0">> :> <<"A", "T", "X", "0", "0", "3">>
    @@ <<"M", "D", "6", "3">> :> <<"A", "T", "X", "0", "0", "3">>
    @@ <<"M", "D", "0", "5">> :> <<"A", "T", "X", "0", "0", "7">>
    @@ <<"M", "D", "0", "6">> :> <<"A", "T", "X", "0", "1", "2">>
    @@ <<"M", "D", "1", "3">> :> <<"A", "T", "X", "0", "0", "6">>
    @@ <<"M", "D", "4", "9">> :> <<"A", "T", "X", "0", "0", "8">>
    @@ <<"M", "D", "5", "1">> :> <<"A", "T", "X", "0", "0", "5">>
    @@ <<"M", "D", "5", "2">> :> <<"A", "T", "X", "0", "0", "4">>
    @@ <<"M", "D", "5", "3">> :> <<"A", "T", "X", "0", "0", "4">>
    @@ <<"M", "D", "5", "4">> :> <<"A", "T", "X", "0", "0", "6">>
    @@ <<"M", "D", "5", "5">> :> <<"A", "T", "X", "0", "0", "4">>
    @@ <<"M", "D", "5", "6">> :> <<"A", "T", "X", "0", "2", "1">>
    @@ <<"M", "D", "0", "8">> :> <<"A", "T", "X", "0", "0", "1">>
    @@ <<"M", "D", "0", "9">> :> <<"A", "T", "X", "0", "0", "1">>
    @@ <<"M", "D", "3", "1">> :> <<"A", "T", "X", "0", "0", "1">>
    @@ <<"M", "D", "3", "3">> :> <<"A", "T", "X", "0", "0", "1">>
    @@ <<"M", "D", "4", "2">> :> <<"A", "T", "X", "0", "0", "1">>
    @@ <<"M", "D", "5", "0">> :> <<"A", "T", "X", "0", "0", "1">>
    @@ <<"M", "D", "1", "0">> :> <<"A", "T", "X", "0", "1", "0">>
    @@ <<"M", "D", "1", "2">> :> <<"A", "T", "X", "0", "1", "1">>
    @@ <<"M", "D", "1", "5">> :> <<"A", "T", "X", "0", "1", "0">>
    @@ <<"M", "D", "1", "6">> :> <<"A", "T", "X", "0", "1", "0">>
    @@ <<"M", "D", "3", "4">> :> <<"A", "T", "X", "0", "1", "0">>
    @@ <<"M", "D", "6", "0">> :> <<"A", "T", "X", "0", "1", "1">>
    @@ <<"M", "D", "6", "1">> :> <<"A", "T", "X", "0", "1", "0">>
    @@ <<"M", "D", "6", "4">> :> <<"A", "T", "X", "0", "1", "1">>
    @@ <<"M", "D", "1", "4">> :> <<"A", "T", "X", "0", "1", "6">>
    @@ <<"M", "D", "2", "1">> :> <<"A", "T", "X", "0", "1", "6">>
    @@ <<"M", "D", "3", "8">> :> <<"A", "T", "X", "0", "1", "6">>
    @@ <<"M", "D", "1", "7">> :> <<"A", "T", "X", "0", "1", "4">>
    @@ <<"M", "D", "1", "8">> :> <<"A", "T", "X", "0", "1", "4">>
    @@ <<"M", "D", "3", "9">> :> <<"A", "T", "X", "0", "2", "0">>
    @@ <<"M", "D", "4", "5">> :> <<"A", "T", "X", "0", "2", "0">>
    @@ <<"M", "D", "4", "6">> :> <<"A", "T", "X", "0", "2", "0">>
    @@ <<"M", "D", "5", "7">> :> <<"A", "T", "X", "0", "2", "0">>
    @@ <<"M", "D", "5", "8">> :> <<"A", "T", "X", "0", "2", "0">>
    @@ <<"M", "D", "3", "7">> :> <<"A", "T", "X", "0", "0", "2">>
    @@ <<"M", "D", "4", "1">> :> <<"A", "T", "X", "0", "1", "7">>
    @@ <<"M", "D", "6", "2">> :> <<"A", "T", "X", "0", "1", "7">>
    @@ <<"M", "D", "1", "1">> :> <<"A", "T", "X", "0", "0", "4">>
    @@ <<"M", "D", "3", "5">> :> <<"A", "T", "X", "0", "0", "4">>
    @@ <<"M", "D", "4", "3">> :> <<"A", "T", "X", "0", "0", "4">>
    @@ <<"M", "D", "4", "4">> :> <<"A", "T", "X", "0", "0", "4">>
    @@ <<"M", "D", "0", "4">> :> <<"A", "T", "X", "0", "9", "9">>
    @@ <<"M", "D", "9", "9">> :> <<"A", "T", "X", "0", "9", "9">>

\* 318-421
map_attachment_type(md_code) ==
    IF md_code = JNull THEN JNull
    ELSE IF strip(upper(md_code.v)) \in DOMAIN ATTACHMENT_CODE_MAPPING
    THEN JStr(ATTACHMENT_CODE_MAPPING[strip(upper(md_code.v))])
    ELSE JNull

\* Mutant: the type is what the table returns.
AttachmentType_unmapped(md_code) == map_attachment_type(md_code)

\* 629, 801, 823, 1043: map_attachment_type(...) or "ATX099"
AttachmentType(md_code) == PyOr(map_attachment_type(md_code), JStr(<<"A", "T", "X", "0", "9", "9">>))

\* 628-629: an attachment of the supplier
SupplierAttachments(SUPPLIER_MIME) ==
    JDict(<<Entry("AttachmentType", AttachmentType(get_val(SUPPLIER_MIME["MIME_DESCR"])))>>)

\* 800-801: an attachment of the product, from a UDX.EDXF.MIME
ProductAttachment(PRODUCT_MIME) ==
    JDict(<<Entry("AttachmentType",
                  AttachmentType(get_val(PRODUCT_MIME["UDX.EDXF.MIME_CODE"])))>>)

\* 821-823: an attachment of the product, from a MIME
ProductAttachment2(PRODUCT_MIME_2) ==
    JDict(<<Entry("AttachmentType",
                  AttachmentType(PyOr(get_val(PRODUCT_MIME_2["MIME_CODE"]),
                                      get_val(PRODUCT_MIME_2["MIME_DESCR"]))))>>)

\* 1042-1043: an attachment of the trade item
ItemAttachments(ITEM_MIME) ==
    JDict(<<Entry("AttachmentType",
                  AttachmentType(get_val(ITEM_MIME["UDX.EDXF.MIME_CODE"])))>>)

\* The code elements the model draws from: none, one without text, each
\* code of the table as written and in small letters with whitespace
\* around it, and texts the table does not have; and the description
\* elements: none, a code of the table, and a text it does not have.
MimeCodes ==
    {<<>>, <<Element(JNull, JNull)>>}
    \cup {<<Element(JNull, JStr(code))>> : code \in DOMAIN ATTACHMENT_CODE_MAPPING}
    \cup {<<Element(JNull, JStr(<<" ">> \o lower(code) \o <<"\n">>))>> :
             code \in DOMAIN ATTACHMENT_CODE_MAPPING}
    \cup {<<Element(JNull, JStr(text))>> :
             text \in {<<>>, <<"x", "y", "z">>, <<"M", "D">>, <<"M", "D", " ", "0", "1">>, <<"-", "M", "D", "0", "1">>, <<"A", "T", "X", "0", "1", "5">>}}
MimeDescriptions ==
    {<<>>, <<Element(JNull, JStr(<<"M", "D", "0", "1">>))>>, <<Element(JNull, JStr(<<"P", "h", "o", "t", "o">>))>>,
     <<Element(JNull, JStr(<<"-">>))>>}
MimeTags == {"MIME_CODE", "MIME_DESCR", "UDX.EDXF.MIME_CODE"}
Mimes ==
    {[tag \in MimeTags |-> IF tag = "MIME_DESCR" THEN descr ELSE code] :
        code \in MimeCodes, descr \in MimeDescriptions}

(***************************************************************************)
(* SpecAttachment: a MIME element with the same children stands at each of *)
(* the places attachments are read from (header, UDX.EDXF.MIME and MIME of *)
(* the product, UDX.EDXF.MIME of the trade item); the attachments are      *)
(* converted and pruned as the document is.                                *)
(***************************************************************************)
InitAttachment ==
    /\ pc = "attachment"
    /\ MIME \in Mimes
    /\ REFERENCE = Unused /\ XML_root = Unused /\ target_field = Unused /\ type_asked = Unused
    /\ filter_asked = Unused
    /\ returned = Unused
    /\ CleanUnused /\ FeatureUnused /\ LanguageUnused /\ ConvertUnused
    /\ ProductUnused
    /\ ServerUnused

\* 627-629, 799-801, 820-823, 1041-1043
ConvertAttachments ==
    /\ pc = "attachment"
    /\ returned' = Returned(JDict(<<
           Entry("SupplierAttachments", JList(<<SupplierAttachments(MIME)>>)),
           Entry("ProductAttachments",
                 JList(<<ProductAttachment(MIME), ProductAttachment2(MIME)>>)),
           Entry("ItemAttachments", JList(<<ItemAttachments(MIME)>>))>>))
    /\ pc' = "attached"
    /\ UNCHANGED <<REFERENCE, MIME, XML_root, target_field, type_asked, filter_asked>>
    /\ UNCHANGED <<cleanVars, featureVars, languageVars, convertVars>>
    /\ UNCHANGED productVars
    /\ UNCHANGED serverVars

\* 1203-1213: the pruning of the document, on the attachments
CleanAttachments ==
    /\ pc = "attached"
    /\ cleaned' = clean_json(returned.value)
    /\ pc' = "stored"
    /\ UNCHANGED <<data, recleaned, featureVars, languageVars, convertVars, elementVars>>
    /\ UNCHANGED productVars
    /\ UNCHANGED serverVars

NextAttachment == ConvertAttachments \/ CleanAttachments

SpecAttachment == InitAttachment /\ [][NextAttachment]_vars

(***************************************************************************)
(* SpecLookup: one call of get_val or of get_val_attr, for each val_type,  *)
(* on up to MaxMatches elements of the target field.                       *)
(***************************************************************************)
\* The texts of the elements the model draws from: none, the sentinel alone
\* and before a number or a word, booleans, integers, a word, and the empty
\* text.
LookupTexts ==
    {JNull, JStr(<<"-">>), JStr(<<"-", "5">>), JStr(<<" ", "-", "x", " ">>), JStr(<<"t", "r", "u", "e">>), JStr(<<" ", "T", "R", "U", "E", "\n">>),
     JStr(<<"f", "a", "l", "s", "e">>), JStr(<<"5">>), JStr(<<" ", "1", "2", " ">>), JStr(<<"a", "b", "c">>), JStr(<<>>)}
LookupElements ==
    {Element(lang, text) : lang \in {JNull, JStr(<<"e", "n", "g">>)}, text \in LookupTexts}
LookupRoots(maxMatches) == UNION {[1..n -> LookupElements] : n \in 0..maxMatches}
ValTypes == {"str", "bool", "int"}
LookupFilters == {NoAttributes, NoLang, Lang(JStr(<<"e", "n", "g">>))}

InitLookup ==
    /\ pc = "lookup"
    /\ XML_root \in LookupRoots(MaxMatches)
    /\ type_asked \in ValTypes
    /\ filter_asked = Unused
    /\ REFERENCE = Unused /\ MIME = Unused /\ target_field = Unused
    /\ returned = Unused
    /\ CleanUnused /\ FeatureUnused /\ LanguageUnused /\ ConvertUnused
    /\ ProductUnused
    /\ ServerUnused

\* 47-76
GetVal ==
    /\ pc = "lookup"
    /\ returned' = get_val_type(XML_root, type_asked)
    /\ pc' = "get_val"
    /\ UNCHANGED <<REFERENCE, MIME, XML_root, target_field, type_asked, filter_asked>>
    /\ UNCHANGED <<cleanVars, featureVars, languageVars, convertVars>>
    /\ UNCHANGED productVars
    /\ UNCHANGED serverVars

\* 78-128
GetValAttr ==
    /\ pc = "lookup"
    /\ \E attributes \in LookupFilters :
          /\ filter_asked' = attributes
          /\ returned' = get_val_attr_type(XML_root, type_asked, attributes)
    /\ pc' = "get_val_attr"
    /\ UNCHANGED <<REFERENCE, MIME, XML_root, target_field, type_asked>>
    /\ UNCHANGED <<cleanVars, featureVars, languageVars, convertVars>>
    /\ UNCHANGED productVars
    /\ UNCHANGED serverVars

NextLookup == GetVal \/ GetValAttr

SpecLookup == InitLookup /\ [][NextLookup]_vars

(***************************************************************************)
(* SpecInteger: one integer field of the output is read from a text: by    *)
(* get_val with val_type=int for the fields looked up, from the port code  *)
(* for EtimModellingPortcode, and from the quantity attribute for the      *)
(* quantities of the relations.                                            *)
(***************************************************************************)
\* 723, 724, 803, 825, 851, 977, 989, 1097
LookedUpIntegers ==
    {"WarrantyConsumer", "WarrantyBusiness", "AttachmentOrder", "AttachmentOrder2",
     "EtimModellingClassVersion", "ShelfLifePeriod", "StandardOrderLeadTime",
     "NumberOfPackagingParts"}
\* 754, 1009
QuantityIntegers == {"RelatedProductQuantity", "RelatedItemQuantity"}
IntegerFields == LookedUpIntegers \cup {"EtimModellingPortcode"} \cup QuantityIntegers

\* 874-875 and 880: the port codes are the PORTCODE texts that are not
\* empty; Returned(the port code of the port), or Raised
EtimModellingPortcode(PortCode) ==
    IF isdigit(PortCode) THEN int(PortCode) ELSE Returned(JNull)

\* The field read from an element, or attribute, of the text: Returned(the
\* value), or Raised.
IntegerField(field, text) ==
    IF field \in LookedUpIntegers THEN get_val_type(<<Element(JNull, JStr(text))>>, "int")
    ELSE IF field \in QuantityIntegers THEN RelatedQuantity(JStr(text))
    ELSE IF text # <<>> THEN EtimModellingPortcode(text)
    ELSE Returned(JNull)

\* The texts the model draws from: integers, with whitespace, sign and
\* leading zeros, the empty and the blank text, texts that are no integers,
\* and texts that begin with the sentinel.
IntegerTexts ==
    {<<"5">>, <<" ", "1", "2", " ">>, <<"0">>, <<"+", "4">>, <<"0", "0", "7">>, <<>>, <<" ">>, <<"a", "b", "c">>, <<"2", ".", "5">>, <<"1", "e", "3">>, <<"5", " ", "p", "c", "s">>, <<"A", "1">>,
     <<"-">>, <<"-", "3">>, <<"-", "x">>}

InitInteger ==
    /\ pc = "integer"
    /\ target_field \in IntegerFields
    /\ XML_root \in IntegerTexts
    /\ REFERENCE = Unused /\ MIME = Unused /\ type_asked = Unused /\ filter_asked = Unused
    /\ returned = Unused
    /\ CleanUnused /\ FeatureUnused /\ LanguageUnused /\ ConvertUnused
    /\ ProductUnused
    /\ ServerUnused

\* 723-724, 754, 803, 825, 851, 880, 977, 989, 1009, 1097: an exception
\* ends the conversion
ReadInteger ==
    /\ pc = "integer"
    /\ returned' = IntegerField(target_field, XML_root)
    /\ pc' = IF IntegerField(target_field, XML_root).raised THEN "raised" ELSE "read"
    /\ UNCHANGED <<REFERENCE, MIME, XML_root, target_field, type_asked, filter_asked>>
    /\ UNCHANGED <<cleanVars, featureVars, languageVars, convertVars>>
    /\ UNCHANGED productVars
    /\ UNCHANGED serverVars

NextInteger == ReadInteger

SpecInteger == InitInteger /\ [][NextInteger]_vars

(***************************************************************************)
(* The repeated blocks of a product: the attachments (UDX.EDXF.MIME of the *)
(* extension block, MIME of the product), the PRODUCT_FEATURES, the        *)
(* PRODUCT_REFERENCE and the UDX.EDXF.PACKING_UNIT, each list in document  *)
(* order.  A block is its tag and, for each child tag, the elements of     *)
(* that tag in it; the child tags of the extension block carry the prefix  *)
(* UDX.EDXF. in the document.                                              *)
(***************************************************************************)
MaxBlocks == 2       \* blocks of one kind in a product

\* text.find(sub): the index of the first occurrence, from 0, or -1
find(text, sub) ==
    LET At(i) == i + Len(sub) <= Len(text) /\ SubSeq(text, i + 1, i + Len(sub)) = sub
        found == {i \in 0..Len(text) : At(i)}
    IN IF found = {} THEN -1 ELSE CHOOSE i \in found : \A j \in found : i <= j

\* 513-541: Returned(the version), or Raised when text is None
extract_etim_version(text) ==
    IF text = JNull THEN Raised("TypeError")
    ELSE LET s == text.v
             n == Len(s)
             at == find(s, <<"E", "T", "I", "M">>)
             VersionChar(c) == IsDigit(c) \/ c = "."
         IN IF at = -1 THEN Returned(JNull)
            ELSE LET first == CHOOSE p \in (at + 4)..n :
                                 /\ p = n \/ IsDigit(s[p + 1])
                                 /\ \A q \in (at + 4)..(p - 1) : ~IsDigit(s[q + 1])
                     last == CHOOSE p \in first..n :
                                 /\ p = n \/ ~VersionChar(s[p + 1])
                                 /\ \A q \in first..(p - 1) : VersionChar(s[q + 1])
                     version == SubSeq(s, first + 1, last)
                 IN Returned(IF version # <<>> THEN JStr(version) ELSE JNull)

\* 543-556
extract_class_code(text) ==
    IF Truthy(text) /\ startswith(text.v, <<"E", "C">>) THEN text ELSE JNull

\* 804-806 and 826-828: PRODUCT_MIME.find(source).get("lang", None),
\* resolved, or the default language
AttachmentLanguage(sources, default_tag) ==
    IF sources = <<>> THEN Raised("AttributeError")
    ELSE LET language == convert_to_language_region_code(sources[1].lang)
         IN IF language.raised THEN language
            ELSE Returned(JList(<<PyOr(language.value, default_tag)>>))

\* 800-818 and 822-840: Returned(the attachment of the block), or Raised
ProductAttachmentsEntry(PRODUCT_MIME, default_tag) ==
    LET language == AttachmentLanguage(PRODUCT_MIME["MIME_SOURCE"], default_tag)
        code == IF PRODUCT_MIME.tag = "MIME"
                THEN PyOr(get_val(PRODUCT_MIME["MIME_CODE"]), get_val(PRODUCT_MIME["MIME_DESCR"]))
                ELSE get_val(PRODUCT_MIME["MIME_CODE"])
        description == append_multilingual_elements(PRODUCT_MIME["MIME_DESIGNATION"],
                                                    "AttachmentDescription", default_tag)
    IN IF language.raised THEN language
       ELSE IF description.raised THEN description
       ELSE Returned(JDict(<<
                Entry("AttachmentType", AttachmentType(code)),
                Entry("AttachmentDetails", JList(<<JDict(<<
                    Entry("AttachmentLanguage", language.value),
                    Entry("AttachmentUri", get_val(PRODUCT_MIME["MIME_SOURCE"])),
                    Entry("AttachmentDescription", description.value)>>)>>))>>))

\* 856-866: the feature of a FEATURE element, here its code
EtimFeaturesEntry(FEATURE_element) ==
    JDict(<<Entry("EtimFeatureCode", get_val(FEATURE_element.FNAME))>>)

\* 843-866: Returned(the classification of the block), or Raised
EtimClassificationEntry(PRODUCT_FEATURES) ==
    LET version == extract_etim_version(get_val(PRODUCT_FEATURES["REFERENCE_FEATURE_SYSTEM_NAME"]))
        features == PRODUCT_FEATURES.FEATURE
    IN IF version.raised THEN version
       ELSE Returned(JDict(<<
                Entry("EtimReleaseVersion", version.value),
                Entry("EtimClassCode",
                      extract_class_code(get_val(PRODUCT_FEATURES["REFERENCE_FEATURE_GROUP_ID"]))),
                Entry("EtimFeatures",
                      JList([i \in 1..Len(features) |-> EtimFeaturesEntry(features[i])])),
                Entry("EtimModellingPorts", JList(<<>>))>>))

\* The blocks of a tag, in document order.
BlocksOf(blocks, tag) == SelectSeq(blocks, LAMBDA block : block.tag = tag)

\* Mutant: the values are put at the front of the list.
Appended_front(outcomes) ==
    IF \E i \in 1..Len(outcomes) : outcomes[i].raised
    THEN outcomes[CHOOSE i \in 1..Len(outcomes) :
                     outcomes[i].raised /\ \A j \in 1..(i - 1) : ~outcomes[j].raised]
    ELSE Returned(JList([i \in 1..Len(outcomes) |-> outcomes[Len(outcomes) + 1 - i].value]))

\* The outcome of a loop that appends the values of the outcomes: the first
\* that raised, or the list of the values.
Appended(outcomes) ==
    IF \E i \in 1..Len(outcomes) : outcomes[i].raised
    THEN outcomes[CHOOSE i \in 1..Len(outcomes) :
                     outcomes[i].raised /\ \A j \in 1..(i - 1) : ~outcomes[j].raised]
    ELSE Returned(JList([i \in 1..Len(outcomes) |-> outcomes[i].value]))

\* 799-840: the attachments of the extension block, then those of the
\* product's own MIME elements
ProductAttachmentsList(blocks, default_tag) ==
    LET ordered == BlocksOf(blocks, "UDX.EDXF.MIME") \o BlocksOf(blocks, "MIME")
    IN Appended([i \in 1..Len(ordered) |-> ProductAttachmentsEntry(ordered[i], default_tag)])

\* 843-913
EtimClassificationList(blocks) ==
    Appended([i \in 1..Len(blocks) |-> EtimClassificationEntry(blocks[i])])

\* 749-756
ProductRelationsList(references) ==
    Appended([i \in 1..Len(references) |-> ProductRelation(references[i])])

\* 1084-1112: the packaging unit of a UDX.EDXF.PACKING_UNIT, here its
\* GTIN, type code and quantity
PackagingUnitEntry(PACKING_UNIT) ==
    JDict(<<Entry("PackagingIdentification", JDict(<<
                Entry("PackagingGtin", JList(<<get_val(PACKING_UNIT.GTIN)>>)),
                Entry("PackagingTypeCode", get_val(PACKING_UNIT.PACKING_UNIT_CODE)),
                Entry("PackagingQuantity", get_val(PACKING_UNIT.QUANTITY_MAX))>>))>>)

\* 1084-1112
PackagingUnitList(units) ==
    Appended([i \in 1..Len(units) |-> Returned(PackagingUnitEntry(units[i]))])

\* 749-1112: Returned(the relations, attachments, classifications and
\* packaging units of the product), or Raised
ConvertBlocks(BMECAT_PRODUCT, default_tag) ==
    LET relations == ProductRelationsList(BMECAT_PRODUCT.PRODUCT_REFERENCE)
        attachments == ProductAttachmentsList(BMECAT_PRODUCT.MIME, default_tag)
        classifications == EtimClassificationList(BMECAT_PRODUCT.PRODUCT_FEATURES)
        units == PackagingUnitList(BMECAT_PRODUCT.PACKING_UNIT)
    IN IF relations.raised THEN relations
       ELSE IF attachments.raised THEN attachments
       ELSE IF classifications.raised THEN classifications
       ELSE Returned(JDict(<<
                Entry("ProductRelations", relations.value),
                Entry("ProductAttachments", attachments.value),
                Entry("EtimClassification", classifications.value),
                Entry("PackagingUnit", units.value)>>))

\* The blocks the model draws from.  An attachment has a source element or
\* none, with or without lang attribute and text, a code or none, and two
\* designations or none; a PRODUCT_FEATURES has a reference feature system
\* name or none, naming ETIM or not, a group id or none, and two features
\* or none.
MimeSources ==
    {<<>>, <<Element(JNull, JStr(<<"u", "1">>))>>, <<Element(JStr(<<"g", "e", "r">>), JStr(<<"u", "2">>))>>,
     <<Element(JNull, JNull)>>}
MimeDesignations ==
    {<<>>, <<Element(JStr(<<"g", "e", "r">>), JStr(<<"d", "1">>)), Element(JNull, JStr(<<"d", "2">>))>>}
MimeBlocks ==
    {[tag |-> tag, MIME_SOURCE |-> source, MIME_CODE |-> code, MIME_DESCR |-> <<>>,
      MIME_DESIGNATION |-> designation] :
        tag \in {"UDX.EDXF.MIME", "MIME"}, source \in MimeSources,
        code \in {<<>>, <<Element(JNull, JStr(<<"M", "D", "0", "1">>))>>},
        designation \in MimeDesignations}
SystemNames ==
    {<<>>, <<Element(JNull, JStr(<<"E", "T", "I", "M", "-", "9", ".", "0">>))>>, <<Element(JNull, JStr(<<" ", "E", "T", "I", "M", " ", "1", "0", " ">>))>>,
     <<Element(JNull, JStr(<<"E", "C", "L", "A", "S", "S", "-", "1", "1", ".", "0">>))>>, <<Element(JNull, JStr(<<"E", "T", "I", "M">>))>>,
     <<Element(JNull, JStr(<<"-">>))>>, <<Element(JNull, JNull)>>}
FeatureLists ==
    {<<>>, <<[FNAME |-> <<Element(JNull, JStr(<<"E", "F", "2">>))>>], [FNAME |-> <<Element(JNull, JStr(<<"E", "F", "1">>))>>]>>}
GroupIds == {<<>>, <<Element(JNull, JStr(<<"E", "C", "0", "0", "1">>))>>, <<Element(JNull, JStr(<<"2", "7">>))>>}
FeaturesBlocks ==
    {[tag |-> "PRODUCT_FEATURES", REFERENCE_FEATURE_SYSTEM_NAME |-> name,
      REFERENCE_FEATURE_GROUP_ID |-> id, FEATURE |-> features] :
        name \in SystemNames, id \in GroupIds, features \in FeatureLists}
BlockLists(blocks, maxBlocks) == UNION {[1..n -> blocks] : n \in 0..maxBlocks}

\* The blocks that stand several in a product have a source element or a
\* system name each.
RepeatedMimes ==
    {block \in MimeBlocks :
        /\ block.MIME_CODE = <<>>
        /\ block.MIME_SOURCE # <<>> /\ block.MIME_SOURCE[1].text # JNull}
RepeatedFeatures ==
    {block \in FeaturesBlocks :
        /\ block.REFERENCE_FEATURE_SYSTEM_NAME \in
               {<<Element(JNull, JStr(<<"E", "T", "I", "M", "-", "9", ".", "0">>))>>, <<Element(JNull, JStr(<<"E", "C", "L", "A", "S", "S", "-", "1", "1", ".", "0">>))>>}
        /\ block.REFERENCE_FEATURE_GROUP_ID # <<Element(JNull, JStr(<<"2", "7">>))>>}

\* The references and the packaging units that stand several in a product.
RepeatedReferences ==
    {[type |-> JNull, quantity |-> quantity, PROD_ID_TO |-> id] :
        quantity \in {JNull, JStr(<<"5">>)},
        id \in {<<>>, <<Element(JNull, JStr(<<"A", "1">>))>>, <<Element(JNull, JStr(<<"B", "2">>))>>}}
RepeatedUnits ==
    {[GTIN |-> <<>>, PACKING_UNIT_CODE |-> code, QUANTITY_MAX |-> quantity] :
        code \in {<<>>, <<Element(JNull, JStr(<<"P", "K">>))>>, <<Element(JNull, JStr(<<"B", "X">>))>>},
        quantity \in {<<>>, <<Element(JNull, JStr(<<"1", "0">>))>>}}

\* The products the model draws from: one attachment block and one
\* PRODUCT_FEATURES of any kind, or up to maxBlocks blocks of one tag.
NoBlocks == [MIME |-> <<>>, PRODUCT_FEATURES |-> <<>>, PRODUCT_REFERENCE |-> <<>>,
             PACKING_UNIT |-> <<>>]
BlockProducts(maxBlocks) ==
    {[NoBlocks EXCEPT !.MIME = mimes] :
        mimes \in BlockLists(MimeBlocks, 1) \cup BlockLists(RepeatedMimes, maxBlocks)}
    \cup {[NoBlocks EXCEPT !.PRODUCT_FEATURES = features] :
             features \in BlockLists(FeaturesBlocks, 1) \cup BlockLists(RepeatedFeatures, maxBlocks)}
    \cup {[NoBlocks EXCEPT !.MIME = <<mime>>, !.PRODUCT_FEATURES = <<features>>] :
             mime \in MimeBlocks, features \in FeaturesBlocks}
    \cup {[NoBlocks EXCEPT !.PRODUCT_REFERENCE = references] :
             references \in BlockLists(RepeatedReferences, maxBlocks)}
    \cup {[NoBlocks EXCEPT !.PACKING_UNIT = units] :
             units \in BlockLists(RepeatedUnits, maxBlocks)}

(***************************************************************************)
(* SpecBlocks: the relations, attachments, classifications and packaging   *)
(* units of one product are converted, and the result is pruned as the     *)
(* document is.                                                            *)
(***************************************************************************)
InitBlocks ==
    /\ pc = "blocks"
    /\ PRODUCT \in BlockProducts(MaxBlocks)
    /\ DefaultLangxChange \in {JNull, convert_to_language_region_code(JStr(<<"e", "n", "g">>)).value}
    /\ HEADER = Unused /\ CATALOG = Unused /\ DefaultLangBMEcat = Unused
    /\ LANGUAGEs = Unused /\ xChange = Unused
    /\ product_counter = Unused /\ output_file = Unused
    /\ CleanUnused /\ FeatureUnused /\ LanguageUnused /\ ElementUnused
    /\ ServerUnused

\* 749-1112
ConvertProductBlocks ==
    /\ pc = "blocks"
    /\ \E outcome \in {ConvertBlocks(PRODUCT, DefaultLangxChange)} :
          /\ returned' = outcome
          /\ pc' = IF outcome.raised THEN "raised" ELSE "converted"
    /\ UNCHANGED <<REFERENCE, MIME, XML_root, target_field, type_asked, filter_asked>>
    /\ UNCHANGED <<cleanVars, featureVars, languageVars, convertVars, productVars>>
    /\ UNCHANGED serverVars

\* 1203-1213: the pruning of the document, on the blocks
CleanProductBlocks ==
    /\ pc = "converted"
    /\ cleaned' = clean_json(returned.value)
    /\ pc' = "pruned"
    /\ UNCHANGED <<data, recleaned, featureVars, languageVars, convertVars, elementVars>>
    /\ UNCHANGED productVars
    /\ UNCHANGED serverVars

NextBlocks == ConvertProductBlocks \/ CleanProductBlocks

SpecBlocks == InitBlocks /\ [][NextBlocks]_vars

(***************************************************************************)
(* The modelling ports of a product.  The extension block is its           *)
(* UDX.EDXF.FEATURE_MC elements in document order; each is the texts of    *)
(* its UDX.EDXF.PORTCODE children (JNull for a child without text) and its *)
(* UDX.EDXF.FNAME elements.                                                *)
(***************************************************************************)
MaxFeatureMCs == 3   \* UDX.EDXF.FEATURE_MC elements of a product

RECURSIVE PortcodeTexts(_)
\* 873: the texts of UDX.iterfind(".//UDX.EDXF.PORTCODE"), in document order
PortcodeTexts(FEATURE_MCs) ==
    IF FEATURE_MCs = <<>> THEN <<>>
    ELSE Head(FEATURE_MCs).PORTCODE \o PortcodeTexts(Tail(FEATURE_MCs))

RECURSIVE unique_ports_all(_, _)
\* Mutant: every port code with text is appended.
unique_ports_all(PORTCODEs, ModellingPorts) ==
    IF PORTCODEs = <<>> THEN ModellingPorts
    ELSE unique_ports_all(Tail(PORTCODEs),
             IF Truthy(Head(PORTCODEs))
             THEN Append(ModellingPorts, Head(PORTCODEs).v)
             ELSE ModellingPorts)

RECURSIVE unique_ports(_, _)
\* 873-875: ModellingPorts after the loop over PORTCODEs
unique_ports(PORTCODEs, ModellingPorts) ==
    IF PORTCODEs = <<>> THEN ModellingPorts
    ELSE unique_ports(Tail(PORTCODEs),
             IF /\ Truthy(Head(PORTCODEs))
                /\ \A i \in 1..Len(ModellingPorts) : ModellingPorts[i] # Head(PORTCODEs).v
             THEN Append(ModellingPorts, Head(PORTCODEs).v)
             ELSE ModellingPorts)

\* 887: the elements of .//UDX.EDXF.FEATURE_MC[UDX.EDXF.PORTCODE='PortCode'],
\* or Raised when the port code closes the quotes of the predicate
FEATURE_MC_of_port(FEATURE_MCs, PortCode) ==
    LET Equal(text) == text # JNull /\ text.v = PortCode
        HasPort(FEATURE_MC) ==
            \E k \in 1..Len(FEATURE_MC.PORTCODE) : Equal(FEATURE_MC.PORTCODE[k])
    IN IF \E i \in 1..Len(PortCode) : PortCode[i] = "'"
       THEN Raised("SyntaxError")
       ELSE Returned(SelectSeq(FEATURE_MCs, HasPort))

\* 888-894: the feature of a FEATURE_MC, here its code
EtimModellingFeature(FEATURE_MC) ==
    JDict(<<Entry("EtimFeatureCode", get_val(FEATURE_MC.FNAME))>>)

\* 879-910: Returned(the port), or Raised
EtimModellingPort(FEATURE_MCs, PortCode) ==
    LET matching == FEATURE_MC_of_port(FEATURE_MCs, PortCode)
    IN IF matching.raised THEN matching
       ELSE Returned(JDict(<<
                Entry("EtimModellingPortcode", EtimModellingPortcode(PortCode).value),
                Entry("EtimModellingFeatures",
                      JList([i \in 1..Len(matching.value) |->
                                EtimModellingFeature(matching.value[i])]))>>))

\* 870-910: Returned(EtimModellingPorts), or Raised
EtimModellingPorts(FEATURE_MCs) ==
    LET ModellingPorts == unique_ports(PortcodeTexts(FEATURE_MCs), <<>>)
    IN Appended([i \in 1..Len(ModellingPorts) |->
                    EtimModellingPort(FEATURE_MCs, ModellingPorts[i])])

\* The port codes of a FEATURE_MC the model draws from: none, one (a
\* number, the same with a leading zero, a letter, a text with an
\* apostrophe, no text) or two.
PortcodeLists ==
    {<<>>, <<JNull>>, <<JStr(<<"1">>)>>, <<JStr(<<"2">>)>>, <<JStr(<<"0", "1">>)>>,
     <<JStr(<<"A">>)>>, <<JStr(<<"1", "'">>)>>, <<JStr(<<"1">>), JStr(<<"2">>)>>, <<JStr(<<"2">>), JStr(<<"2">>)>>}

\* The i-th FEATURE_MC of a product is named after its place; the one of a
\* product with a single FEATURE_MC may have no name.
NamedFeatureMC(i, portcodes, named) ==
    [PORTCODE |-> portcodes,
     FNAME |-> IF named THEN <<Element(JNull, JStr(<<"F", DigitChars[i + 1]>>))>> ELSE <<>>]
PortProducts(maxFeatureMCs) ==
    UNION {{[FEATURE_MC |-> [i \in 1..n |-> NamedFeatureMC(i, portcodes[i], named)]] :
               portcodes \in [1..n -> PortcodeLists],
               named \in IF n = 1 THEN BOOLEAN ELSE {TRUE}} :
           n \in 0..maxFeatureMCs}

(***************************************************************************)
(* SpecPorts: the modelling ports of one product are converted, and the    *)
(* result is pruned as the document is.                                    *)
(***************************************************************************)
InitPorts ==
    /\ pc = "ports"
    /\ PRODUCT \in PortProducts(MaxFeatureMCs)
    /\ CleanUnused /\ FeatureUnused /\ LanguageUnused /\ ConvertUnused /\ ElementUnused
    /\ ServerUnused

\* 870-910
ConvertPorts ==
    /\ pc = "ports"
    /\ \E outcome \in {EtimModellingPorts(PRODUCT.FEATURE_MC)} :
          /\ returned' = IF outcome.raised THEN outcome
                         ELSE Returned(JDict(<<Entry("EtimModellingPorts", outcome.value)>>))
          /\ pc' = IF outcome.raised THEN "raised" ELSE "converted"
    /\ UNCHANGED <<REFERENCE, MIME, XML_root, target_field, type_asked, filter_asked>>
    /\ UNCHANGED <<cleanVars, featureVars, languageVars, convertVars, productVars>>
    /\ UNCHANGED serverVars

\* 1203-1213: the pruning of the document, on the ports
CleanPorts ==
    /\ pc = "converted"
    /\ cleaned' = clean_json(returned.value)
    /\ pc' = "pruned"
    /\ UNCHANGED <<data, recleaned, featureVars, languageVars, convertVars, elementVars>>
    /\ UNCHANGED productVars
    /\ UNCHANGED serverVars

NextPorts == ConvertPorts \/ CleanPorts

SpecPorts == InitPorts /\ [][NextPorts]_vars

(***************************************************************************)
(* The country-specific characteristics of a product: its                  *)
(* UDX.EDXF.PRODUCT_CHARACTERISTIC elements in document order, each with   *)
(* the elements of its code, name, string value and set value.             *)
(***************************************************************************)
\* 930-951 and 1059-1080: Returned(the entry), or Raised: the code is that
\* of CHARACTERISTIC, the name, the string value and the set value are
\* those of NAMED
ProductCountrySpecificFieldsEntry(CHARACTERISTIC, NAMED, default_tag) ==
    LET name == append_multilingual_elements(NAMED.PRODUCT_CHARACTERISTIC_NAME,
                    "CSProductCharacteristicName", default_tag)
        string == append_multilingual_elements(NAMED.PRODUCT_CHARACTERISTIC_VALUE_STRING,
                      "CSProductCharacteristicValueString", default_tag)
        set == append_multilingual_elements(NAMED.PRODUCT_CHARACTERISTIC_VALUE_SET,
                   "CSProductCharacteristicValueSet", default_tag)
    IN IF name.raised THEN name
       ELSE IF string.raised THEN string
       ELSE IF set.raised THEN set
       ELSE Returned(JDict(<<
                Entry("CSProductCharacteristicCode",
                      get_val(CHARACTERISTIC.PRODUCT_CHARACTERISTIC_CODE)),
                Entry("CSProductCharacteristicName", name.value),
                Entry("CSProductCharacteristicValueString", string.value),
                Entry("CSProductCharacteristicValueSet", set.value)>>))

\* 929-953: the loop of the product; the entry of PRODUCT_CHARACTERISTIC
\* takes its name and values from PRODUCT_CHARACTERISTIC
ProductCharacteristics(CHARACTERISTICs, default_tag) ==
    Appended([i \in 1..Len(CHARACTERISTICs) |->
                 ProductCountrySpecificFieldsEntry(CHARACTERISTICs[i], CHARACTERISTICs[i],
                                                   default_tag)])

\* 1058-1082: the loop of the trade item; the entry of ITEM_CHARACTERISTIC
\* takes its name, string value and set value from PRODUCT_CHARACTERISTIC,
\* which is the last element of the loop of the product
ItemCharacteristics(CHARACTERISTICs, default_tag) ==
    Appended([i \in 1..Len(CHARACTERISTICs) |->
                 ProductCountrySpecificFieldsEntry(CHARACTERISTICs[i],
                                                   CHARACTERISTICs[Len(CHARACTERISTICs)],
                                                   default_tag)])

\* 929-953 and 1058-1082: Returned(Product["ProductCountrySpecificFields"]),
\* or Raised; both loops append to the list of the product
CountrySpecificFields(CHARACTERISTICs, default_tag) ==
    LET product == ProductCharacteristics(CHARACTERISTICs, default_tag)
        item == ItemCharacteristics(CHARACTERISTICs, default_tag)
    IN IF product.raised THEN product
       ELSE IF item.raised THEN item
       ELSE Returned(JList(product.value.v \o item.value.v))

\* The characteristics the model draws from: with a code or none, a name
\* with or without lang attribute or none, a string value or none, a set
\* value or none; those that stand several in a product have a code and a
\* name.
Characteristics ==
    {[PRODUCT_CHARACTERISTIC_CODE |-> code, PRODUCT_CHARACTERISTIC_NAME |-> name,
      PRODUCT_CHARACTERISTIC_VALUE_STRING |-> string,
      PRODUCT_CHARACTERISTIC_VALUE_SET |-> set] :
        code \in {<<>>, <<Element(JNull, JStr(<<"C", "1">>))>>, <<Element(JNull, JStr(<<"C", "2">>))>>},
        name \in {<<>>, <<Element(JNull, JStr(<<"n", "1">>))>>, <<Element(JStr(<<"g", "e", "r">>), JStr(<<"n", "2">>))>>},
        string \in {<<>>, <<Element(JNull, JStr(<<"s", "1">>))>>},
        set \in {<<>>, <<Element(JNull, JStr(<<"v", "1">>)), Element(JNull, JStr(<<"v", "2">>))>>}}
RepeatedCharacteristics ==
    {characteristic \in Characteristics :
        /\ characteristic.PRODUCT_CHARACTERISTIC_CODE # <<>>
        /\ characteristic.PRODUCT_CHARACTERISTIC_NAME # <<>>
        /\ characteristic.PRODUCT_CHARACTERISTIC_VALUE_STRING = <<>>}
CharacteristicProducts(maxBlocks) ==
    {[PRODUCT_CHARACTERISTIC |-> characteristics] :
        characteristics \in BlockLists(Characteristics, 1)
                            \cup BlockLists(RepeatedCharacteristics, maxBlocks)}

(***************************************************************************)
(* SpecCharacteristic: the country-specific fields of one product are      *)
(* converted, by the loop of the product and by the loop of its trade      *)
(* item, and the result is pruned as the document is.                      *)
(***************************************************************************)
InitCharacteristic ==
    /\ pc = "characteristic"
    /\ PRODUCT \in CharacteristicProducts(MaxBlocks)
    /\ DefaultLangxChange \in {JNull, convert_to_language_region_code(JStr(<<"e", "n", "g">>)).value}
    /\ HEADER = Unused /\ CATALOG = Unused /\ DefaultLangBMEcat = Unused
    /\ LANGUAGEs = Unused /\ xChange = Unused
    /\ product_counter = Unused /\ output_file = Unused
    /\ CleanUnused /\ FeatureUnused /\ LanguageUnused /\ ElementUnused
    /\ ServerUnused

\* 929-953 and 1058-1082
ConvertCharacteristics ==
    /\ pc = "characteristic"
    /\ \E outcome \in {CountrySpecificFields(PRODUCT.PRODUCT_CHARACTERISTIC, DefaultLangxChange)} :
          /\ returned' = IF outcome.raised THEN outcome
                         ELSE Returned(JDict(<<Entry("ProductCountrySpecificFields",
                                                     outcome.value)>>))
          /\ pc' = IF outcome.raised THEN "raised" ELSE "converted"
    /\ UNCHANGED <<REFERENCE, MIME, XML_root, target_field, type_asked, filter_asked>>
    /\ UNCHANGED <<cleanVars, featureVars, languageVars, convertVars, productVars>>
    /\ UNCHANGED serverVars

\* 1203-1213: the pruning of the document, on the country-specific fields
CleanCharacteristics ==
    /\ pc = "converted"
    /\ cleaned' = clean_json(returned.value)
    /\ pc' = "pruned"
    /\ UNCHANGED <<data, recleaned, featureVars, languageVars, convertVars, elementVars>>
    /\ UNCHANGED productVars
    /\ UNCHANGED serverVars

NextCharacteristic == ConvertCharacteristics \/ CleanCharacteristics

SpecCharacteristic == InitCharacteristic /\ [][NextCharacteristic]_vars

(***************************************************************************)
(* The web endpoint of main.py: POST /convert.  Several requests are in    *)
(* the handler at once; each step below is a part of the handler that runs *)
(* without giving up the event loop, or the conversion in its worker       *)
(* thread.                                                                 *)
(***************************************************************************)
MaxRequests == 3
Capacity == 2
Requests == 1..MaxRequests

\* The upload names of the requests: two with the extension .xml, so that
\* two requests can carry the same name, and one that is not allowed.
FileNames == {<<"a", ".", "x", "m", "l">>, <<"b", ".", "X", "M", "L">>, <<"a", ".", "t", "x", "t">>}

\* filename.rsplit(".", 1): the place of the last dot, 0 when there is none.
LastDot(filename) ==
    IF \E i \in 1..Len(filename) : filename[i] = "."
    THEN CHOOSE i \in 1..Len(filename) :
            /\ filename[i] = "."
            /\ \A j \in (i + 1)..Len(filename) : filename[j] # "."
    ELSE 0

\* allowed_file: the text after the last dot is "xml" in any case.
allowed_file(filename) ==
    /\ LastDot(filename) > 0
    /\ lower(SubSeq(filename, LastDot(filename) + 1, Len(filename))) = <<"x", "m", "l">>

\* Path(...).stem: the name without its last suffix.
stem(filename) ==
    IF LastDot(filename) > 1 THEN SubSeq(filename, 1, LastDot(filename) - 1)
    ELSE filename

\* The paths of the temp directory: NamedTemporaryFile gives each request a
\* name of its own; the output file is named after the upload.
Path(name, n) == [name |-> name, n |-> n]
input_path(r) == Path(<<"t", "m", "p">>, r)
output_filename(filename) == stem(filename) \o <<".", "j", "s", "o", "n">>
output_path(filename) == Path(output_filename(filename), 0)
Paths ==
    {input_path(r) : r \in Requests} \cup {output_path(name) : name \in FileNames}

\* What a file holds: the upload of a request, or the document converted
\* from the upload of a request; Missing where there is no file.
Missing == [kind |-> "missing", of |-> 0]
Upload(r) == [kind |-> "upload", of |-> r]
Document(r) == [kind |-> "document", of |-> r]
exists(file_path) == UPLOAD_DIR[file_path] # Missing

\* cleanup_file: the directory without the file, when it is there.
cleanup_file(dir, file_path) ==
    IF dir[file_path] # Missing THEN [dir EXCEPT ![file_path] = Missing] ELSE dir

\* asyncio.Semaphore: locked, _wake_up_next, release, and the two halves
\* of acquire (before and after the wait).  A waiter is done once a release
\* has handed it the permit.
Waiter(r, done) == [request |-> r, done |-> done]
locked_never(semaphore) == FALSE
locked(semaphore) == semaphore.value = 0 \/ semaphore.waiters # <<>>

wake_up_next(semaphore) ==
    IF \E i \in 1..Len(semaphore.waiters) : ~semaphore.waiters[i].done
    THEN LET i == CHOOSE k \in 1..Len(semaphore.waiters) :
                    /\ ~semaphore.waiters[k].done
                    /\ \A j \in 1..(k - 1) : semaphore.waiters[j].done
         IN [value |-> semaphore.value - 1,
             waiters |-> [semaphore.waiters EXCEPT ![i].done = TRUE]]
    ELSE semaphore

release_kept(semaphore) == semaphore
release(semaphore) == wake_up_next([semaphore EXCEPT !.value = @ + 1])

acquire(semaphore, r) ==
    IF ~locked(semaphore) THEN [semaphore EXCEPT !.value = @ - 1]
    ELSE [semaphore EXCEPT !.waiters = Append(@, Waiter(r, FALSE))]

acquired(semaphore, r) ==
    LET left == [semaphore EXCEPT
                    !.waiters = SelectSeq(@, LAMBDA w : w.request # r)]
    IN IF left.value > 0 THEN wake_up_next(left) ELSE left

Granted(semaphore, r) ==
    \E i \in 1..Len(semaphore.waiters) : semaphore.waiters[i] = Waiter(r, TRUE)

\* A request: where it stands in the handler, its upload name while it is
\* in the handler, how often convert_file was called for it, how the
\* conversion ended, the responses sent for it, and the content sent as
\* the file.
NoRequest ==
    [pc |-> "idle", filename |-> <<>>, calls |-> 0, outcome |-> "none",
     sent |-> <<>>, served |-> Missing]

\* The ways convert_file ends: it returns after writing and validating the
\* output; it raises an Exception before the output is written (malformed
\* XML, unsupported language code, int() of a non-number); validate_json
\* raises SystemExit after the output is written.
Outcomes == {"ok", "Exception", "SystemExit"}

InitServer ==
    /\ pc = "serving"
    /\ requests = [r \in Requests |-> NoRequest]
    /\ CONVERSION_SEMAPHORE = [value |-> Capacity, waiters |-> <<>>]
    /\ UPLOAD_DIR = [p \in Paths |-> Missing]
    /\ CleanUnused /\ FeatureUnused /\ LanguageUnused /\ ConvertUnused
    /\ ElementUnused /\ ProductUnused

\* convert, lines 66-109: the checks of the upload, the temp file, and the
\* entry of the semaphore: the request starts its conversion or waits.
Receive(r) ==
    /\ requests[r].pc = "idle"
    /\ \A q \in 1..(r - 1) : requests[q].pc # "idle"
    /\ \E filename \in FileNames :
          IF ~allowed_file(filename)
          THEN /\ requests' = [requests EXCEPT ![r].pc = "rejected",
                                               ![r].sent = <<"400">>]
               /\ UNCHANGED <<CONVERSION_SEMAPHORE, UPLOAD_DIR>>
          ELSE /\ UPLOAD_DIR' = [UPLOAD_DIR EXCEPT ![input_path(r)] = Upload(r)]
               /\ CONVERSION_SEMAPHORE' = acquire(CONVERSION_SEMAPHORE, r)
               /\ requests' =
                    IF ~locked(CONVERSION_SEMAPHORE)
                    THEN [requests EXCEPT ![r].pc = "converting",
                                          ![r].filename = filename,
                                          ![r].calls = @ + 1]
                    ELSE [requests EXCEPT ![r].pc = "waiting",
                                          ![r].filename = filename]
    /\ UNCHANGED <<pc, cleanVars, featureVars, languageVars, convertVars,
                   elementVars, productVars>>

\* Semaphore.acquire after the wait: the request that was handed a permit
\* leaves the queue and starts its conversion.
Resume(r) ==
    /\ requests[r].pc = "waiting"
    /\ Granted(CONVERSION_SEMAPHORE, r)
    /\ CONVERSION_SEMAPHORE' = acquired(CONVERSION_SEMAPHORE, r)
    /\ requests' = [requests EXCEPT ![r].pc = "converting", ![r].calls = @ + 1]
    /\ UNCHANGED UPLOAD_DIR
    /\ UNCHANGED <<pc, cleanVars, featureVars, languageVars, convertVars,
                   elementVars, productVars>>

\* convert_file in the worker thread: it ends in one of the three ways, and
\* the output file is there unless it raised before writing.
ConvertFile(r) ==
    /\ requests[r].pc = "converting"
    /\ \E outcome \in Outcomes :
          /\ requests' = [requests EXCEPT ![r].pc = "returned",
                                          ![r].outcome = outcome]
          /\ UPLOAD_DIR' =
                IF outcome = "Exception" THEN UPLOAD_DIR
                ELSE [UPLOAD_DIR EXCEPT
                        ![output_path(requests[r].filename)] = Document(r)]
    /\ UNCHANGED CONVERSION_SEMAPHORE
    /\ UNCHANGED <<pc, cleanVars, featureVars, languageVars, convertVars,
                   elementVars, productVars>>

\* The except branch of convert, lines 161-173: both files are removed and
\* the generic failure is the response.
ConversionFailed(r) ==
    /\ UPLOAD_DIR' =
          cleanup_file(cleanup_file(UPLOAD_DIR, input_path(r)),
                       output_path(requests[r].filename))
    /\ requests' = [requests EXCEPT ![r].pc = "done",
                                    ![r].filename = <<>>,
                                    ![r].sent = Append(@, "conversion failed")]

\* convert, lines 107-173, once the worker thread has ended: the semaphore
\* is released on every way out of the block; an Exception, a missing
\* output and an unreadable output go to the except branch; SystemExit is
\* no Exception and leaves the handler; otherwise the file response is
\* returned with its cleanup tasks.
Respond(r) ==
    /\ requests[r].pc = "returned"
    /\ CONVERSION_SEMAPHORE' = release(CONVERSION_SEMAPHORE)
    /\ \/ /\ requests[r].outcome = "SystemExit"
          /\ requests' = [requests EXCEPT ![r].pc = "aborted", ![r].filename = <<>>]
          /\ UNCHANGED UPLOAD_DIR
       \/ /\ requests[r].outcome = "Exception"
          /\ ConversionFailed(r)
       \/ /\ requests[r].outcome = "ok"
          /\ \E readable \in BOOLEAN :
                IF exists(output_path(requests[r].filename)) /\ readable
                THEN /\ requests' = [requests EXCEPT ![r].pc = "sending"]
                     /\ UNCHANGED UPLOAD_DIR
                ELSE ConversionFailed(r)
    /\ UNCHANGED <<pc, cleanVars, featureVars, languageVars, convertVars,
                   elementVars, productVars>>

\* FileResponse: the file at output_path is sent as it is at that time;
\* without a file there the response fails, and the cleanup tasks may or
\* may not run after it.
SendFile(r) ==
    /\ requests[r].pc = "sending"
    /\ \E file \in {UPLOAD_DIR[output_path(requests[r].filename)]} :
          IF file # Missing
          THEN requests' = [requests EXCEPT ![r].pc = "background",
                                            ![r].sent = Append(@, "file"),
                                            ![r].served = file]
          ELSE \/ requests' = [requests EXCEPT ![r].pc = "background"]
               \/ requests' = [requests EXCEPT ![r].pc = "aborted", ![r].filename = <<>>]
    /\ UNCHANGED <<CONVERSION_SEMAPHORE, UPLOAD_DIR>>
    /\ UNCHANGED <<pc, cleanVars, featureVars, languageVars, convertVars,
                   elementVars, productVars>>

\* The cleanup tasks of the file response, lines 149-151.
BackgroundCleanup(r) ==
    /\ requests[r].pc = "background"
    /\ UPLOAD_DIR' =
          cleanup_file(cleanup_file(UPLOAD_DIR, input_path(r)),
                       output_path(requests[r].filename))
    /\ requests' = [requests EXCEPT ![r].pc = "done", ![r].filename = <<>>]
    /\ UNCHANGED CONVERSION_SEMAPHORE
    /\ UNCHANGED <<pc, cleanVars, featureVars, languageVars, convertVars,
                   elementVars, productVars>>

NextServer ==
    \/ \E r \in Requests : Receive(r)
    \/ \E r \in Requests : Resume(r)
    \/ \E r \in Requests : ConvertFile(r)
    \/ \E r \in Requests : Respond(r)
    \/ \E r \in Requests : SendFile(r)
    \/ \E r \in Requests : BackgroundCleanup(r)

SpecServer == InitServer /\ [][NextServer]_vars

\* The steps of the requests that have arrived: the event loop runs a task
\* that can run, and every conversion ends, so such a step is taken as long
\* as one is possible.  Each request has finitely many steps, so no request
\* can be passed over for ever.
Progress ==
    \E r \in Requests :
        \/ Resume(r)
        \/ ConvertFile(r)
        \/ Respond(r)
        \/ SendFile(r)
        \/ BackgroundCleanup(r)

SpecServerFair == InitServer /\ [][NextServer]_vars /\ WF_vars(Progress)

(***************************************************************************)
(* Claims about clean_json, checked under SpecClean.                       *)
(***************************************************************************)
\* A value the pruner counts as empty, stated on the shape of the value:
\* null, a text of no characters, a list of no items, a mapping of no entries.
EmptyShape(x) ==
    \/ x.t = "null"
    \/ x.t \in {"str", "list", "dict"} /\ Len(x.v) = 0

Children(x) ==
    IF x.t = "list" THEN x.v
    ELSE IF x.t = "dict" THEN [i \in 1..Len(x.v) |-> x.v[i].v]
    ELSE <<>>

RECURSIVE NoEmptyInside(_)
\* No container of the tree x, at any depth, holds an empty value.
NoEmptyInside(x) ==
    \A i \in 1..Len(Children(x)) :
        /\ ~EmptyShape(Children(x)[i])
        /\ NoEmptyInside(Children(x)[i])

RECURSIVE LeavesOf(_, _), LeavesOfAll(_, _, _)
\* The scalars of x that are neither null nor "", in document order, each
\* with its path: the mapping keys above it, and "[]" for each list above it.
LeavesOf(x, path) ==
    IF x.t \in {"list", "dict"} THEN LeavesOfAll(x, path, 1)
    ELSE IF EmptyShape(x) THEN <<>>
    ELSE <<[path |-> path, leaf |-> x]>>

LeavesOfAll(x, path, i) ==
    IF i > Len(x.v) THEN <<>>
    ELSE (IF x.t = "list"
          THEN LeavesOf(x.v[i], Append(path, "[]"))
          ELSE LeavesOf(x.v[i].v, Append(path, x.v[i].k)))
         \o LeavesOfAll(x, path, i + 1)

\* C1: pruning is idempotent: clean_json(clean_json(x)) = clean_json(x).
C1_PruneIdempotent ==
    pc = "recleaned" => recleaned = cleaned

\* C1 witness: the first pass removed a list that was emptied by pruning its
\* only item, and the second pass was applied to that result.
C1_Witness ==
    /\ pc = "recleaned"
    /\ data = JList(<<JList(<<JNull>>), JNum(0)>>)
    /\ cleaned = JList(<<JNum(0)>>)
    /\ recleaned = cleaned

\* C2: at every depth the result holds no mapping entry and no list element
\* that is null, "", [] or {}; a container emptied by the pruning of its
\* children is removed from its parent.
C2_NoEmptyAtAnyDepth ==
    pc \in {"cleaned", "recleaned"} => NoEmptyInside(cleaned)

\* C2 witness: a list that becomes empty only after its child list is
\* pruned ({"k1": [[""]]}) is removed from the mapping that held it.
C2_Witness ==
    /\ pc = "cleaned"
    /\ data = JDict(<<[k |-> "k1", v |-> JList(<<JList(<<JStr(<<>>)>>)>>)]>>)
    /\ cleaned = JDict(<<>>)

\* C3: only empty values are removed: every scalar that is not null or "",
\* False and 0 included, is kept under the same key path, and the survivors
\* keep their relative order.
C3_OnlyEmptyRemoved ==
    pc \in {"cleaned", "recleaned"}
        => /\ LeavesOf(cleaned, <<>>) = LeavesOf(data, <<>>)
           /\ cleaned.t = data.t

\* C3 witness: False, "" and 0 in a list: "" goes, False and 0 stay, in
\* that order.
C3_Witness ==
    /\ pc = "cleaned"
    /\ data = JList(<<JBool(FALSE), JStr(<<>>), JNum(0)>>)
    /\ cleaned = JList(<<JBool(FALSE), JNum(0)>>)

(***************************************************************************)
(* Claims about process_feature_values and clean_number, checked under     *)
(* SpecFeature.                                                            *)
(***************************************************************************)
Reverse(s) == [i \in 1..Len(s) |-> s[Len(s) + 1 - i]]

\* The stripped FVALUE texts that are EV codes, and those that parse as
\* numbers, of the FEATURE at hand.
EvCodesOf(FVALUEs) == SelectSeq(StrippedValues(FVALUEs), IsEvCode)
NumbersOf(FVALUEs) == NumericValues(StrippedValues(FVALUEs))

HasCodedValue(d) == HasKey(d, "EtimValueCode")
HasNumericValue(d) == HasKey(d, "EtimValueNumeric")
HasRange(d) == HasKey(d, "EtimValueRangeLower") \/ HasKey(d, "EtimValueRangeUpper")
HasLogical(d) == HasKey(d, "EtimValueLogical")

\* How many of the four value kinds the dictionary carries.
KindCount(d) ==
    Cardinality({kind \in {"code", "numeric", "range", "logical"} :
                    \/ kind = "code" /\ HasCodedValue(d)
                    \/ kind = "numeric" /\ HasNumericValue(d)
                    \/ kind = "range" /\ HasRange(d)
                    \/ kind = "logical" /\ HasLogical(d)})

\* C4: a feature with at least one EV code among its values yields the
\* first such value as the coded value, and no numeric value, no range and
\* no boolean.
C4_CodedValueExcludesOthers ==
    (pc = "classified" /\ EvCodesOf(FEATURE) # <<>>)
        => /\ HasCodedValue(result)
           /\ Get(result, "EtimValueCode") = JStr(EvCodesOf(FEATURE)[1])
           /\ ~HasNumericValue(result)
           /\ ~HasRange(result)
           /\ ~HasLogical(result)

\* C5: every feature carries exactly one of the four value kinds, whatever
\* the FVALUE texts are: never two together and never none.
C5_ExactlyOneValueKind ==
    pc = "classified" => KindCount(result) = 1

\* C6: the numeric classification depends only on how many values parse as
\* numbers.  Two: a range whose bounds are the two parsed values, the lower
\* not above the upper, the same for the values in reverse order.  One: a
\* single numeric value and no range.  None, or three and more: neither.
C6_NumericByCount ==
    pc = "classified" =>
        LET nums == NumbersOf(FEATURE)
            swapped == process_feature_values(Reverse(FEATURE))
        IN /\ Len(nums) = 2 =>
                /\ ~HasNumericValue(result)
                /\ HasKey(result, "EtimValueRangeLower")
                /\ HasKey(result, "EtimValueRangeUpper")
                /\ \E lo, hi \in {1, 2} :
                      /\ lo # hi \/ nums[1] = nums[2]
                      /\ ~FloatLess(nums[hi], nums[lo])
                      /\ Get(result, "EtimValueRangeLower") = JStr(clean_number(nums[lo]))
                      /\ Get(result, "EtimValueRangeUpper") = JStr(clean_number(nums[hi]))
                /\ Get(swapped, "EtimValueRangeLower") = Get(result, "EtimValueRangeLower")
                /\ Get(swapped, "EtimValueRangeUpper") = Get(result, "EtimValueRangeUpper")
           /\ Len(nums) = 1 => HasNumericValue(result) /\ ~HasRange(result)
           /\ Len(nums) \notin {1, 2} => ~HasNumericValue(result) /\ ~HasRange(result)

\* The feature has a single value that parses as a finite number.
SingleFiniteNumber ==
    /\ pc = "classified"
    /\ Len(NumbersOf(FEATURE)) = 1
    /\ NumbersOf(FEATURE)[1].k = "fin"
    /\ HasNumericValue(result)

\* The size of 10^-4 in the unit floats are held in.
FourthDecimal == FloatScale \div 10000

\* The text is an optional "-" followed by digits only.
IsPlainInteger(txt) ==
    LET ds == IF txt # <<>> /\ Head(txt) = "-" THEN Tail(txt) ELSE txt
    IN ds # <<>> /\ \A i \in 1..Len(ds) : IsDigit(ds[i])

\* The text neither ends with the decimal point nor, if it has one, with "0".
IsStripped(txt) ==
    /\ txt # <<>>
    /\ txt[Len(txt)] # "."
    /\ (\E i \in 1..Len(txt) : txt[i] = ".") => txt[Len(txt)] # "0"

BTVariants ==
    {<<<<"d", "e", "u">>, <<"g", "e", "r">>>>,
     <<<<"n", "l", "d">>, <<"d", "u", "t">>>>,
     <<<<"i", "s", "l">>, <<"i", "c", "e">>>>,
     <<<<"f", "r", "a">>, <<"f", "r", "e">>>>,
     <<<<"r", "o", "n">>, <<"r", "u", "m">>>>,
     <<<<"c", "e", "s">>, <<"c", "z", "e">>>>,
     <<<<"s", "l", "k">>, <<"s", "l", "o">>>>,
     <<<<"z", "h", "o">>, <<"c", "h", "i">>>>,
     <<<<"e", "l", "l">>, <<"g", "r", "e">>>>,
     <<<<"f", "a", "s">>, <<"p", "e", "r">>>>,
     <<<<"m", "s", "a">>, <<"m", "a", "y">>>>,
     <<<<"h", "y", "e">>, <<"a", "r", "m">>>>,
     <<<<"k", "a", "t">>, <<"g", "e", "o">>>>,
     <<<<"e", "u", "s">>, <<"b", "a", "q">>>>,
     <<<<"m", "r", "i">>, <<"m", "a", "o">>>>,
     <<<<"m", "y", "a">>, <<"b", "u", "r">>>>,
     <<<<"m", "k", "d">>, <<"m", "a", "c">>>>,
     <<<<"c", "y", "m">>, <<"w", "e", "l">>>>,
     <<<<"s", "q", "i">>, <<"a", "l", "b">>>>}
\* C8: resolving no code returns no tag.  A code is looked up trimmed and
\* in lower case: if the table has it, its tag is returned, the same tag for
\* the T and the B code of a language ("deu" and "ger" give "de-DE");
\* otherwise, and for the empty text, ValueError is raised and nothing is
\* returned.
C8_LanguageResolution ==
    pc = "resolved" =>
        /\ lang_code = JNull => resolved = Returned(JNull)
        /\ lang_code # JNull =>
              LET code == lower(strip(lang_code.v))
              IN /\ code \in DOMAIN iso_to_lang_region
                        => resolved = Returned(JStr(iso_to_lang_region[code]))
                 /\ code \notin DOMAIN iso_to_lang_region
                        => resolved = Raised("ValueError")
                 /\ \A pair \in BTVariants :
                        code \in {pair[1], pair[2]}
                            => /\ ~resolved.raised
                               /\ resolved = convert_to_language_region_code(JStr(pair[1]))
                               /\ resolved = convert_to_language_region_code(JStr(pair[2]))
                 /\ code \in {<<"g", "e", "r">>, <<"d", "e", "u">>} => resolved = Returned(JStr(<<"d", "e", "-", "D", "E">>))
        /\ lang_code = JStr(<<>>) => resolved = Raised("ValueError")

\* C8 witness: "GER" in capitals with whitespace around it was resolved to
\* the tag of "deu".
C8_Witness ==
    /\ pc = "resolved"
    /\ lang_code = JStr(<<"\t", "G", "E", "R", " ">>)
    /\ resolved = Returned(JStr(<<"d", "e", "-", "D", "E">>))
    /\ resolved = convert_to_language_region_code(JStr(<<"d", "e", "u">>))

(***************************************************************************)
(* Claims about the conversion of a document, checked under SpecConvert.   *)
(***************************************************************************)
\* The code is one the table does not have.
Unsupported(code) ==
    code # JNull /\ lower(strip(code.v)) \notin DOMAIN iso_to_lang_region

\* A header LANGUAGE element, or a lang attribute of an element of a
\* product, holds an unsupported code.
UnsupportedCodeInInput ==
    \/ \E i \in 1..Len(HEADER.LANGUAGE) : Unsupported(HEADER.LANGUAGE[i].text)
    \/ \E i \in 1..Len(CATALOG) : \E tag \in ProductTags :
          \E j \in 1..Len(CATALOG[i][tag]) : Unsupported(CATALOG[i][tag][j].lang)

\* C9: a document with an unsupported language code anywhere, in a header
\* LANGUAGE element or in the lang attribute of a description, keyword,
\* attachment, feature detail or characteristic text, is never converted:
\* no output document is written.
C9_UnsupportedCodeIsFatal ==
    UnsupportedCodeInInput => pc # "written" /\ output_file = NoFile

\* The header LANGUAGE elements flagged default="true", and those of them
\* that have text.
FlaggedEntries ==
    {i \in 1..Len(HEADER.LANGUAGE) : HEADER.LANGUAGE[i].default = JStr(<<"t", "r", "u", "e">>)}
FlaggedWithText == {i \in FlaggedEntries : HEADER.LANGUAGE[i].text # JNull}
First(S) == CHOOSE i \in S : \A j \in S : i <= j

\* The same code, whitespace around it aside, or no code on both sides.
SameCode(a, b) ==
    \/ a = JNull /\ b = JNull
    \/ a # JNull /\ b # JNull /\ strip(a.v) = strip(b.v)

\* The default language has been decided.
DefaultDecided == pc \in {"languages", "supplier", "products", "written"}

\* The tag the table gives for the code.
TagOf(code) ==
    IF code = JNull THEN JNull ELSE JStr(iso_to_lang_region[lower(strip(code.v))])

\* The products converted so far.
ConvertedProducts ==
    IF Get(xChange, "Supplier").v = <<>> THEN <<>>
    ELSE Get(Get(xChange, "Supplier").v[1], "Product").v

\* Every product converted so far has its first description in the language
\* decided.
EveryProductInDefaultLanguage ==
    /\ Len(ConvertedProducts) = IF pc = "raised" THEN product_counter - 1 ELSE product_counter
    /\ \A i \in 1..Len(ConvertedProducts) :
          Get(Get(Get(ConvertedProducts[i], "ProductDetails"), "ProductDescriptions").v[1],
              "DescriptionLanguage") = DefaultLangxChange

\* Without a flagged entry the default is the first header LANGUAGE entry,
\* without any entry there is none.
DefaultIsFirstEntry ==
    IF HEADER.LANGUAGE # <<>>
    THEN SameCode(DefaultLangBMEcat, HEADER.LANGUAGE[1].text)
    ELSE DefaultLangBMEcat = JNull

\* C10 as claimed: once decided, the default language is that of a header
\* LANGUAGE entry flagged default="true" if the header has one, otherwise
\* that of the first entry, otherwise none; every product is converted
\* with it.
C10_DefaultIsFlaggedEntry ==
    DefaultDecided =>
        /\ IF FlaggedEntries # {}
           THEN \E i \in FlaggedEntries :
                    SameCode(DefaultLangBMEcat, HEADER.LANGUAGE[i].text)
           ELSE DefaultIsFirstEntry
        /\ DefaultLangxChange = TagOf(DefaultLangBMEcat)
        /\ EveryProductInDefaultLanguage

\* C10 as amended: once decided, the default language is that of the first
\* header LANGUAGE entry that is flagged default="true" and has text; if
\* there is no such entry that of the first entry; without any entry
\* none; every product is converted with it.
C10_DefaultIsFlaggedEntryWithText ==
    DefaultDecided =>
        /\ IF FlaggedWithText # {}
           THEN SameCode(DefaultLangBMEcat, HEADER.LANGUAGE[First(FlaggedWithText)].text)
           ELSE DefaultIsFirstEntry
        /\ DefaultLangxChange = TagOf(DefaultLangBMEcat)
        /\ EveryProductInDefaultLanguage

\* C10 witness: the flag is on the second of two entries; both products
\* were converted with its language, not with that of the first entry.
C10_Witness ==
    /\ pc = "written"
    /\ HEADER.LANGUAGE = <<LanguageElement(JStr(<<"e", "n", "g">>), JNull),
                           LanguageElement(JStr(<<" ", "G", "E", "R", " ">>), JStr(<<"t", "r", "u", "e">>))>>
    /\ DefaultLangxChange = JStr(<<"d", "e", "-", "D", "E">>)
    /\ product_counter = 2
    /\ EveryProductInDefaultLanguage

\* The header languages have been read into the output's Language list.
LanguagesRead == pc \in {"supplier", "products", "written"}

\* The entries of the output's Language list.
LanguageList == Get(xChange, "Language").v

\* The resolved tags of the header LANGUAGE entries.
HeaderTags == {TagOf(HEADER.LANGUAGE[i].text) : i \in 1..Len(HEADER.LANGUAGE)}

\* The items of the sequence are pairwise different.
Distinct(s) == \A i, j \in 1..Len(s) : i # j => s[i] # s[j]

\* The header declares no language: it has no LANGUAGE element.
NoLanguageDeclared == HEADER.LANGUAGE = <<>>

\* C11: the output's Language list is the set of the resolved tags of all
\* header LANGUAGE entries, each distinct tag once; when the header declares
\* no language, it holds the resolved default language as its only entry.
C11_LanguageListIsSet ==
    LanguagesRead =>
        IF NoLanguageDeclared
        THEN LanguageList = <<DefaultLangxChange>>
        ELSE /\ {LanguageList[i] : i \in 1..Len(LanguageList)} = HeaderTags
             /\ Distinct(LanguageList)

\* The descriptions of a converted product, and their language tags in
\* order.
DescriptionsOf(Product) == Get(Get(Product, "ProductDetails"), "ProductDescriptions").v
DescriptionTags(Product) ==
    [i \in 1..Len(DescriptionsOf(Product)) |->
        Get(DescriptionsOf(Product)[i], "DescriptionLanguage")]

\* C12: every product's ProductDescriptions holds exactly one description
\* for each language present, the description in the default language comes
\* first and is always there, and no language tag appears twice, for any
\* header list: with the default flagged on a later entry, with entries that
\* repeat, with two codes that resolve to the same tag.
C12_OneDescriptionPerLanguage ==
    \A i \in 1..Len(ConvertedProducts) :
        LET tags == DescriptionTags(ConvertedProducts[i])
        IN /\ tags # <<>>
           /\ tags[1] = DefaultLangxChange
           /\ Distinct(tags)
           /\ {tags[j] : j \in 1..Len(tags)} = {DefaultLangxChange} \cup (HeaderTags \ {JNull})

(***************************************************************************)
(* Claims about the descriptions of a product, checked under               *)
(* SpecDescription.                                                        *)
(***************************************************************************)
\* The one product of the document has been converted.
ProductConverted == pc \in {"products", "written"} /\ product_counter = 1

\* The text of the product's element of the tag that has no lang attribute,
\* and of the one whose lang attribute is the code; JNull without such an
\* element.
TextOf(elements, lang) ==
    LET at == {i \in 1..Len(elements) : elements[i].lang = lang}
    IN IF at = {} THEN JNull ELSE elements[First(at)].text
Unlabelled(tag) == TextOf(CATALOG[1][tag], JNull)
Labelled(tag, code) == IF code = JNull THEN JNull ELSE TextOf(CATALOG[1][tag], code)

\* A text is empty when there is none, when it is blank, and when it begins
\* with the sentinel "-"; otherwise its value is the text without the
\* whitespace around it.
IsEmptyText(text) ==
    \/ text = JNull
    \/ strip(text.v) = <<>>
    \/ Head(strip(text.v)) = "-"
ValueOf(text) == JStr(strip(text.v))

\* The value of the first text of the chain that is not empty; JNull when
\* all are empty.
FirstNonEmpty(chain) ==
    LET full == {k \in 1..Len(chain) : ~IsEmptyText(chain[k])}
    IN IF full = {} THEN JNull ELSE ValueOf(chain[First(full)])

\* The description in the default language, as converted and as written.
DefaultDescriptionOf(Product) == DescriptionsOf(Product)[1]
WrittenGet(d, key) == IF d # JNull /\ HasKey(d, key) THEN Get(d, key) ELSE JNull
WrittenFirst(l) == IF l # JNull /\ l.v # <<>> THEN l.v[1] ELSE JNull
WrittenDescriptions ==
    WrittenGet(WrittenGet(WrittenFirst(WrittenGet(WrittenFirst(
        WrittenGet(output_file, "Supplier")), "Product")), "ProductDetails"),
        "ProductDescriptions")

\* The field of the converted description is the value, and absent from the
\* written description exactly when there is no value.
FieldIs(converted, written, field, value) ==
    /\ IF value = JNull
       THEN ~Truthy(Get(converted, field))
       ELSE Get(converted, field) = value
    /\ pc = "written" => WrittenGet(written, field) = value

\* C13: the default-language MinimalProductDescription is the first
\* non-empty value of the chain: very-short description without language
\* label, short description without label, very-short description labelled
\* with the default language, long description labelled with the default
\* language; the field is absent only when all four are absent or empty.
C13_MinimalDescriptionChain ==
    ProductConverted =>
        FieldIs(DefaultDescriptionOf(ConvertedProducts[1]),
                WrittenFirst(WrittenDescriptions),
                "MinimalProductDescription",
                FirstNonEmpty(<<Unlabelled("UDX.EDXF.DESCRIPTION_VERY_SHORT"),
                                Unlabelled("DESCRIPTION_SHORT"),
                                Labelled("UDX.EDXF.DESCRIPTION_VERY_SHORT", DefaultLangBMEcat),
                                Labelled("DESCRIPTION_LONG", DefaultLangBMEcat)>>))

\* C13 witness: the unlabelled very-short description holds the sentinel
\* and the long description labelled with the default language "ger" has
\* text; the written description has the long description's text as its
\* MinimalProductDescription.
C13_Witness ==
    /\ pc = "written"
    /\ DefaultLangBMEcat = JStr(<<"g", "e", "r">>)
    /\ Unlabelled("UDX.EDXF.DESCRIPTION_VERY_SHORT") = JStr(<<" ", "-", " ">>)
    /\ Labelled("DESCRIPTION_LONG", DefaultLangBMEcat) = JStr(<<" ", "L", "3", "\n">>)
    /\ WrittenGet(WrittenFirst(WrittenDescriptions), "MinimalProductDescription") = JStr(<<"L", "3">>)

\* C14: the default-language UniqueMainProductDescription is the unlabelled
\* short description if there is one with a value, otherwise the short
\* description labelled with the default language.  With "ger" as the
\* header's default language and a DESCRIPTION_SHORT of text T without lang
\* attribute, the product's output has a description tagged de-DE whose
\* UniqueMainProductDescription is T.
C14_UniqueDescriptionUnlabelledFirst ==
    ProductConverted =>
        /\ FieldIs(DefaultDescriptionOf(ConvertedProducts[1]),
                   WrittenFirst(WrittenDescriptions),
                   "UniqueMainProductDescription",
                   FirstNonEmpty(<<Unlabelled("DESCRIPTION_SHORT"),
                                   Labelled("DESCRIPTION_SHORT", DefaultLangBMEcat)>>))
        /\ (DefaultLangBMEcat = JStr(<<"g", "e", "r">>) /\ ~IsEmptyText(Unlabelled("DESCRIPTION_SHORT")))
              => /\ Get(DefaultDescriptionOf(ConvertedProducts[1]), "DescriptionLanguage")
                        = JStr(<<"d", "e", "-", "D", "E">>)
                 /\ Get(DefaultDescriptionOf(ConvertedProducts[1]), "UniqueMainProductDescription")
                        = ValueOf(Unlabelled("DESCRIPTION_SHORT"))
                 /\ pc = "written" =>
                        \E i \in 1..Len(WrittenDescriptions.v) :
                            /\ WrittenGet(WrittenDescriptions.v[i], "DescriptionLanguage")
                                   = JStr(<<"d", "e", "-", "D", "E">>)
                            /\ WrittenGet(WrittenDescriptions.v[i], "UniqueMainProductDescription")
                                   = ValueOf(Unlabelled("DESCRIPTION_SHORT"))

\* C14 witness: under the default language "ger" the product has a short
\* description without lang attribute and one labelled "ger"; the written
\* description tagged de-DE has the text of the unlabelled one.
C14_Witness ==
    /\ pc = "written"
    /\ DefaultLangBMEcat = JStr(<<"g", "e", "r">>)
    /\ Unlabelled("DESCRIPTION_SHORT") = JStr(<<" ", "S", "2", "\n">>)
    /\ Labelled("DESCRIPTION_SHORT", DefaultLangBMEcat) = JStr(<<" ", "S", "3", "\n">>)
    /\ WrittenGet(WrittenFirst(WrittenDescriptions), "DescriptionLanguage") = JStr(<<"d", "e", "-", "D", "E">>)
    /\ WrittenGet(WrittenFirst(WrittenDescriptions), "UniqueMainProductDescription") = JStr(<<"S", "2">>)

\* The declared languages other than the default, in header order, and the
\* description of the converted product in the k-th of them.
OtherLanguages ==
    LET Other(code) == code # JNull /\ code # DefaultLangBMEcat
    IN SelectSeq([i \in 1..Len(HEADER.LANGUAGE) |-> HEADER.LANGUAGE[i].text], Other)
OtherDescription(k) == DescriptionsOf(ConvertedProducts[1])[k + 1]

\* The value of the field in language L: that of the element labelled L
\* when the product has one, that of the unlabelled element when not.
LabelledOrUnlabelled(tag, L) ==
    LET text == IF Labelled(tag, L) # JNull THEN Labelled(tag, L) ELSE Unlabelled(tag)
    IN IF IsEmptyText(text) THEN JNull ELSE ValueOf(text)

\* The value is the converted field, empty values being alike.
SameValue(field, value) ==
    IF value = JNull THEN ~Truthy(field) ELSE field = value

\* The texts of the product labelled with a language other than L.
LabelledOtherwise(L) ==
    UNION {{ValueOf(CATALOG[1][tag][i].text) :
               i \in {j \in 1..Len(CATALOG[1][tag]) :
                         /\ CATALOG[1][tag][j].lang \notin {JNull, L}
                         /\ ~IsEmptyText(CATALOG[1][tag][j].text)}} :
              tag \in TextTags}

\* C15: for each declared language L other than the default, each text
\* field of L's description (minimal, unique and full description,
\* specification text, application instructions) comes from the element
\* labelled lang=L, falling back to the unlabelled value when the product
\* has no element labelled L, and never to a value labelled with a
\* different language.
C15_OtherLanguageFallsBackToUnlabelled ==
    ProductConverted =>
        /\ Len(DescriptionsOf(ConvertedProducts[1])) = 1 + Len(OtherLanguages)
        /\ \A k \in 1..Len(OtherLanguages) :
              LET L == OtherLanguages[k]
                  description == OtherDescription(k)
              IN /\ SameValue(Get(description, "MinimalProductDescription"),
                              FirstNonEmpty(<<Labelled("UDX.EDXF.DESCRIPTION_VERY_SHORT", L),
                                              Labelled("DESCRIPTION_SHORT", L),
                                              Unlabelled("UDX.EDXF.DESCRIPTION_VERY_SHORT"),
                                              Unlabelled("DESCRIPTION_SHORT")>>))
                 /\ SameValue(Get(description, "UniqueMainProductDescription"),
                              LabelledOrUnlabelled("DESCRIPTION_SHORT", L))
                 /\ SameValue(Get(description, "FullProductDescription"),
                              LabelledOrUnlabelled("DESCRIPTION_LONG", L))
                 /\ SameValue(Get(description, "ProductSpecificationText"),
                              LabelledOrUnlabelled("UDX.EDXF.TENDER_TEXT", L))
                 /\ SameValue(Get(description, "ProductApplicationInstructions"),
                              LabelledOrUnlabelled("REMARKS", L))
                 /\ \A field \in {"MinimalProductDescription", "UniqueMainProductDescription",
                                  "FullProductDescription", "ProductSpecificationText",
                                  "ProductApplicationInstructions"} :
                        Get(description, field) \notin LabelledOtherwise(L)

(***************************************************************************)
(* Claims about product references, checked under SpecReference.           *)
(***************************************************************************)
\* The relations of the product and of the trade item, as converted and as
\* pruned.
ProductRelationOf(doc) == Get(doc, "ProductRelations").v[1]
ItemRelationOf(doc) == Get(doc, "ItemRelations").v[1]

\* The text writes the integer n in decimal digits, with or without sign,
\* whitespace around it aside.
WritesInteger(text, n) ==
    LET b == strip(text)
        digits == IF b # <<>> /\ Head(b) \in {"+", "-"} THEN Tail(b) ELSE b
    IN /\ digits # <<>>
       /\ \A i \in 1..Len(digits) : IsDigit(digits[i])
       /\ DigitsValue(digits) = Abs(n)
       /\ n < 0 => Head(b) = "-"
       /\ n > 0 => Head(b) # "-"
QuantityRange == -20..20

\* C16: a PRODUCT_REFERENCE without quantity attribute gives a relation
\* whose RelatedProductQuantity, and the trade item's RelatedItemQuantity,
\* is 1; with a quantity attribute the value is the integer the attribute
\* writes, and there is no relation when it writes none.
C16_QuantityDefaultsToOne ==
    /\ pc \in {"related", "pruned"} =>
          \E doc \in {IF pc = "pruned" THEN cleaned ELSE returned.value} :
              /\ REFERENCE.quantity = JNull =>
                    /\ Get(ProductRelationOf(doc), "RelatedProductQuantity") = JNum(1)
                    /\ Get(ItemRelationOf(doc), "RelatedItemQuantity") = JNum(1)
              /\ REFERENCE.quantity # JNull =>
                    \E n \in QuantityRange :
                        /\ WritesInteger(REFERENCE.quantity.v, n)
                        /\ Get(ProductRelationOf(doc), "RelatedProductQuantity") = JNum(n)
                        /\ Get(ItemRelationOf(doc), "RelatedItemQuantity") = JNum(n)
    /\ pc = "raised" =>
          /\ REFERENCE.quantity # JNull
          /\ \A n \in QuantityRange : ~WritesInteger(REFERENCE.quantity.v, n)

\* C16 witness: a reference without quantity attribute was converted and
\* pruned; both relations have the quantity 1.
C16_Witness ==
    /\ pc = "pruned"
    /\ REFERENCE.quantity = JNull
    /\ Get(ProductRelationOf(cleaned), "RelatedProductQuantity") = JNum(1)
    /\ Get(ItemRelationOf(cleaned), "RelatedItemQuantity") = JNum(1)

\* C17: a PRODUCT_REFERENCE without type attribute gets the RelationType
\* OTHER.  With a type attribute the RelationType is the table's code for
\* the trimmed, lower-cased attribute, "accessory" and "accessories" having
\* the same code; a type the table does not have gives no RelationType at
\* all, neither OTHER nor an error.
C17_RelationTypeFromTable ==
    /\ pc \in {"related", "pruned"} =>
          \E doc \in {IF pc = "pruned" THEN cleaned ELSE returned.value} :
          \A relation \in {ProductRelationOf(doc), ItemRelationOf(doc)} :
              /\ REFERENCE.type = JNull => Get(relation, "RelationType") = JStr(<<"O", "T", "H", "E", "R">>)
              /\ REFERENCE.type # JNull =>
                    LET type == lower(strip(REFERENCE.type.v))
                    IN /\ type \in DOMAIN RELATION_TYPE_MAPPING
                          => Get(relation, "RelationType") = JStr(RELATION_TYPE_MAPPING[type])
                       /\ type \in {<<"a", "c", "c", "e", "s", "s", "o", "r", "y">>, <<"a", "c", "c", "e", "s", "s", "o", "r", "i", "e", "s">>}
                          => Get(relation, "RelationType") = JStr(<<"A", "C", "C", "E", "S", "S", "O", "R", "Y">>)
                       /\ type \notin DOMAIN RELATION_TYPE_MAPPING
                          => IF pc = "pruned"
                             THEN ~HasKey(relation, "RelationType")
                             ELSE Get(relation, "RelationType") = JNull
    /\ pc = "raised" => REFERENCE.quantity \notin {JNull, JStr(<<"1">>), JStr(<<"5">>)}

\* C17 witness: a reference of the type "xyz", which the table does not
\* have, was converted and pruned: its relations have a quantity and no
\* RelationType.
C17_Witness ==
    /\ pc = "pruned"
    /\ REFERENCE.type = JStr(<<"x", "y", "z">>)
    /\ HasKey(ProductRelationOf(cleaned), "RelatedProductQuantity")
    /\ ~HasKey(ProductRelationOf(cleaned), "RelationType")
    /\ ~HasKey(ItemRelationOf(cleaned), "RelationType")

(***************************************************************************)
(* Claims about attachments, checked under SpecAttachment.                 *)
(***************************************************************************)
\* The code a place reads: the lookup value of the element, JNull when
\* there is none, its first choice if that has a value, else its second.
LookupValue(elements) ==
    IF elements = <<>> \/ IsEmptyText(elements[1].text) THEN JNull
    ELSE ValueOf(elements[1].text)
SourceCode(first, second) ==
    IF LookupValue(first) # JNull THEN LookupValue(first) ELSE LookupValue(second)

\* The type the claim gives for a source code.
TypeFor(code) ==
    IF code # JNull /\ upper(code.v) \in DOMAIN ATTACHMENT_CODE_MAPPING
    THEN JStr(ATTACHMENT_CODE_MAPPING[upper(code.v)])
    ELSE JStr(<<"A", "T", "X", "0", "9", "9">>)

\* The attachment at a place of the document has the type.
HasType(doc, place, i, type) ==
    /\ HasKey(Get(doc, place).v[i], "AttachmentType")
    /\ Get(Get(doc, place).v[i], "AttachmentType") = type
    /\ type \notin {JNull, JStr(<<>>)}

\* C18: every attachment entry of the output (supplier, product from either
\* source, trade item) has an AttachmentType: the table's code when the
\* MIME code it reads maps, ATX099 when that code is absent or not in the
\* table; the table itself returns nothing for an unmapped code.
C18_AttachmentTypeNeverAbsent ==
    /\ pc \in {"attached", "stored"} =>
          \E doc \in {IF pc = "stored" THEN cleaned ELSE returned.value} :
              /\ HasType(doc, "SupplierAttachments", 1,
                         TypeFor(SourceCode(MIME["MIME_DESCR"], <<>>)))
              /\ HasType(doc, "ProductAttachments", 1,
                         TypeFor(SourceCode(MIME["UDX.EDXF.MIME_CODE"], <<>>)))
              /\ HasType(doc, "ProductAttachments", 2,
                         TypeFor(SourceCode(MIME["MIME_CODE"], MIME["MIME_DESCR"])))
              /\ HasType(doc, "ItemAttachments", 1,
                         TypeFor(SourceCode(MIME["UDX.EDXF.MIME_CODE"], <<>>)))
    /\ \A tag \in MimeTags :
          SourceCode(MIME[tag], <<>>) # JNull
          /\ upper(SourceCode(MIME[tag], <<>>).v) \notin DOMAIN ATTACHMENT_CODE_MAPPING
              => map_attachment_type(get_val(MIME[tag])) = JNull

\* C18 witness: the MIME code is "xyz", which the table does not have, and
\* the description is "MD01": after pruning the attachments that read the
\* code have the type ATX099 and the supplier's, which reads the
\* description, ATX015.
C18_Witness ==
    /\ pc = "stored"
    /\ MIME["MIME_CODE"] = <<Element(JNull, JStr(<<"x", "y", "z">>))>>
    /\ MIME["MIME_DESCR"] = <<Element(JNull, JStr(<<"M", "D", "0", "1">>))>>
    /\ Get(Get(cleaned, "ProductAttachments").v[1], "AttachmentType") = JStr(<<"A", "T", "X", "0", "9", "9">>)
    /\ Get(Get(cleaned, "ProductAttachments").v[2], "AttachmentType") = JStr(<<"A", "T", "X", "0", "9", "9">>)
    /\ Get(Get(cleaned, "ItemAttachments").v[1], "AttachmentType") = JStr(<<"A", "T", "X", "0", "9", "9">>)
    /\ Get(Get(cleaned, "SupplierAttachments").v[1], "AttachmentType") = JStr(<<"A", "T", "X", "0", "1", "5">>)

(***************************************************************************)
(* Claims about get_val and get_val_attr, checked under SpecLookup.        *)
(***************************************************************************)
\* The elements the call's filter lets through: all for get_val, those
\* whose lang attribute the filter asks for in get_val_attr.
PassesFilter(e) ==
    \/ pc = "get_val"
    \/ /\ pc = "get_val_attr"
       /\ filter_asked.no_lang => e.lang = JNull
       /\ filter_asked.has_lang => e.lang = JStr(filter_asked.lang)
MatchingElements == SelectSeq(XML_root, PassesFilter)

\* The trimmed text of the first matching element ("" when it has none).
FirstMatchText ==
    IF MatchingElements[1].text = JNull THEN <<>> ELSE strip(MatchingElements[1].text.v)

\* The lookup has been made.
LookedUp == pc \in {"get_val", "get_val_attr"}

NotAnInteger(text) ==
    /\ strip(text) # <<>>
    /\ Head(strip(text)) # "-"
    /\ \A n \in QuantityRange : ~WritesInteger(text, n)

\* C20: a failed integer coercion is always fatal and never a silent skip:
\* for every integer field of the output (warranties, attachment order,
\* modelling class version, modelling port code, shelf life, lead time,
\* packaging parts, reference quantity) a text that is not empty, does not
\* begin with "-" and is not an integer makes the conversion raise; only
\* the empty text is recorded as absent.
C20_IntegerFailureIsFatal ==
    pc \in {"read", "raised"} =>
        /\ NotAnInteger(XML_root) => pc = "raised" /\ returned.raised
        /\ (returned = Returned(JNull) /\ ~startswith(strip(XML_root), <<"-">>))
              => strip(XML_root) = <<>>

(***************************************************************************)
(* Claims about the two lookups compared, checked under SpecLookup.        *)
(***************************************************************************)
\* C26: get_val_attr called with no attribute filters and without the
\* no-language flag returns the same result as get_val, for every context,
\* tag and type, including when the first matching element has empty text
\* or no text and a later matching element has text.
C26_UnfilteredLookupIsGetVal ==
    (pc = "get_val_attr" /\ filter_asked = NoAttributes)
        => returned = get_val_type(XML_root, type_asked)

(***************************************************************************)
(* Claims about missing children of a block, checked under SpecBlocks.     *)
(***************************************************************************)
\* C21: a missing optional field never surfaces an error: whatever element
\* or attribute of an attachment block or of a PRODUCT_FEATURES block is
\* absent (a MIME block without a source element, a PRODUCT_FEATURES
\* without a reference feature system name), the field is left absent and
\* the conversion completes with a document.
C21_MissingFieldIsAbsent ==
    LET Supported(block) ==
            block.MIME_SOURCE = <<>> \/ ~convert_to_language_region_code(block.MIME_SOURCE[1].lang).raised
    IN (pc # "blocks" /\ \A i \in 1..Len(PRODUCT.MIME) : Supported(PRODUCT.MIME[i]))
          => pc \in {"converted", "pruned"} /\ ~returned.raised

(***************************************************************************)
(* Claims about the order of the lists, checked under SpecBlocks.          *)
(***************************************************************************)
\* The attachments and the classifications of the product as converted.
BlocksConverted == pc \in {"converted", "pruned"}
AttachmentsBuilt == Get(returned.value, "ProductAttachments").v
ClassificationsBuilt == Get(returned.value, "EtimClassification").v
RelationsBuilt == Get(returned.value, "ProductRelations").v
UnitsBuilt == Get(returned.value, "PackagingUnit").v

\* The strictly increasing maps from 1..n into 1..m.
IncreasingMaps(n, m) ==
    {f \in [1..n -> 1..m] : \A i, j \in 1..n : i < j => f[i] < f[j]}

RECURSIVE OrderKept(_, _)
\* after is before with entries left out and none moved: the items of a
\* list of after come from items of the list of before in the same order,
\* and the items left out are empty once pruned.
OrderKept(before, after) ==
    IF before.t = "list"
    THEN /\ after.t = "list"
         /\ \E f \in IncreasingMaps(Len(after.v), Len(before.v)) :
               /\ \A i \in 1..Len(after.v) : OrderKept(before.v[f[i]], after.v[i])
               /\ \A k \in 1..Len(before.v) :
                     (\A i \in 1..Len(after.v) : f[i] # k)
                         => IsEmptyValue(clean_json(before.v[k]))
    ELSE IF before.t = "dict"
    THEN /\ after.t = "dict"
         /\ \A i \in 1..Len(after.v) :
               /\ HasKey(before, after.v[i].k)
               /\ OrderKept(Get(before, after.v[i].k), after.v[i].v)
    ELSE after = before

\* The i-th relation is built from the i-th PRODUCT_REFERENCE, the i-th
\* packaging unit from the i-th PACKING_UNIT, the i-th classification from
\* the i-th PRODUCT_FEATURES and its j-th feature from the j-th FEATURE,
\* and the j-th description record of an attachment from the j-th
\* designation of its block; pruning keeps the relative order of what
\* survives.
OrderWithinBlocks(mimes) ==
    /\ Len(RelationsBuilt) = Len(PRODUCT.PRODUCT_REFERENCE)
    /\ \A i \in 1..Len(RelationsBuilt) :
          /\ Get(RelationsBuilt[i], "RelatedManufacturerProductNumber") =
                get_val(PRODUCT.PRODUCT_REFERENCE[i].PROD_ID_TO)
          /\ RelationsBuilt[i] = ProductRelation(PRODUCT.PRODUCT_REFERENCE[i]).value
    /\ Len(UnitsBuilt) = Len(PRODUCT.PACKING_UNIT)
    /\ \A i \in 1..Len(UnitsBuilt) :
          /\ Get(Get(UnitsBuilt[i], "PackagingIdentification"), "PackagingTypeCode") =
                get_val(PRODUCT.PACKING_UNIT[i].PACKING_UNIT_CODE)
          /\ UnitsBuilt[i] = PackagingUnitEntry(PRODUCT.PACKING_UNIT[i])
    /\ Len(ClassificationsBuilt) = Len(PRODUCT.PRODUCT_FEATURES)
    /\ \A i \in 1..Len(ClassificationsBuilt) :
          LET features == Get(ClassificationsBuilt[i], "EtimFeatures").v
              FEATUREs == PRODUCT.PRODUCT_FEATURES[i].FEATURE
          IN /\ Get(ClassificationsBuilt[i], "EtimClassCode") =
                    extract_class_code(get_val(PRODUCT.PRODUCT_FEATURES[i].REFERENCE_FEATURE_GROUP_ID))
             /\ Len(features) = Len(FEATUREs)
             /\ \A j \in 1..Len(features) :
                    Get(features[j], "EtimFeatureCode") = FEATUREs[j].FNAME[1].text
    /\ \A i \in 1..Len(AttachmentsBuilt) :
          LET records == Get(Get(AttachmentsBuilt[i], "AttachmentDetails").v[1],
                             "AttachmentDescription").v
              designations == mimes[i].MIME_DESIGNATION
          IN /\ Len(records) = Len(designations)
             /\ \A j \in 1..Len(records) :
                    Get(records[j], "AttachmentDescription") = designations[j].text
    /\ pc = "pruned" => OrderKept(returned.value, cleaned)

\* The i-th attachment is built from the i-th of mimes.
AttachmentsFrom(mimes) ==
    /\ Len(AttachmentsBuilt) = Len(mimes)
    /\ \A i \in 1..Len(AttachmentsBuilt) :
          /\ Get(Get(AttachmentsBuilt[i], "AttachmentDetails").v[1], "AttachmentUri") =
                get_val(mimes[i].MIME_SOURCE)
          /\ AttachmentsBuilt[i] = ProductAttachmentsEntry(mimes[i], DefaultLangxChange).value

PortTextsRead == PortcodeTexts(PRODUCT.FEATURE_MC)
DistinctPortTexts ==
    {PortTextsRead[i].v : i \in {k \in 1..Len(PortTextsRead) : Truthy(PortTextsRead[k])}}
FirstPlace(text) ==
    CHOOSE i \in 1..Len(PortTextsRead) :
        /\ PortTextsRead[i] = JStr(text)
        /\ \A j \in 1..(i - 1) : PortTextsRead[j] # JStr(text)

\* The places of the FEATURE_MC elements with a port-code child equal to
\* text, in document order, and the codes of the features written for them.
PlacesWithPort(text) ==
    {i \in 1..Len(PRODUCT.FEATURE_MC) :
        \E k \in 1..Len(PRODUCT.FEATURE_MC[i].PORTCODE) :
            PRODUCT.FEATURE_MC[i].PORTCODE[k] = JStr(text)}
FeatureOfPlace(i) ==
    JDict(<<Entry("EtimFeatureCode",
                  IF PRODUCT.FEATURE_MC[i].FNAME = <<>> THEN JNull
                  ELSE PRODUCT.FEATURE_MC[i].FNAME[1].text)>>)

\* port is the entry of the port code text: its features are those of the
\* FEATURE_MC elements with that port code, each once, in document order.
IsPortOf(port, text) ==
    LET features == Get(port, "EtimModellingFeatures").v
        Rank(place) == Cardinality({i \in PlacesWithPort(text) : i <= place})
    IN /\ Len(features) = Cardinality(PlacesWithPort(text))
       /\ \A place \in PlacesWithPort(text) : features[Rank(place)] = FeatureOfPlace(place)
       /\ Get(port, "EtimModellingPortcode") =
             (IF isdigit(text) THEN int(text).value ELSE JNull)

\* C23: modelling ports are deduplicated by port code: the
\* EtimModellingPorts list has exactly one entry per distinct non-empty
\* port code text found in the product's extension block, in
\* first-occurrence order, and the features listed under a port are exactly
\* the FEATURE_MC elements that have a port-code child equal to that port's
\* code.
C23_OnePortPerCode ==
    pc \in {"converted", "pruned"} =>
        LET ports == Get(returned.value, "EtimModellingPorts").v
            Rank(text) ==
                Cardinality({other \in DistinctPortTexts : FirstPlace(other) <= FirstPlace(text)})
        IN /\ Len(ports) = Cardinality(DistinctPortTexts)
           /\ \A text \in DistinctPortTexts : IsPortOf(ports[Rank(text)], text)

\* C23 witness: the FEATURE_MC elements of the product have the port codes
\* 2, 1 and 2; the list has the port 2 with the first and the third feature
\* and then the port 1 with the second.
C23_Witness ==
    /\ pc = "pruned"
    /\ Len(PRODUCT.FEATURE_MC) = 3
    /\ PortTextsRead = <<JStr(<<"2">>), JStr(<<"1">>), JStr(<<"2">>)>>
    /\ Get(cleaned, "EtimModellingPorts") =
          JList(<<JDict(<<Entry("EtimModellingPortcode", JNum(2)),
                          Entry("EtimModellingFeatures",
                                JList(<<JDict(<<Entry("EtimFeatureCode", JStr(<<"F", "1">>))>>),
                                        JDict(<<Entry("EtimFeatureCode", JStr(<<"F", "3">>))>>)>>))>>),
                  JDict(<<Entry("EtimModellingPortcode", JNum(1)),
                          Entry("EtimModellingFeatures",
                                JList(<<JDict(<<Entry("EtimFeatureCode", JStr(<<"F", "2">>))>>)>>))>>)>>)

(***************************************************************************)
(* Claims about the country-specific fields, under SpecCharacteristic.     *)
(***************************************************************************)
\* The texts of the records of a multilingual list, and of elements.
RecordTexts(records, entry_key) == [i \in 1..Len(records) |-> Get(records[i], entry_key)]
ElementTexts(elements) == [i \in 1..Len(elements) |-> elements[i].text]

\* C27: each country-specific characteristic element of a product yields
\* exactly one entry in the product's ProductCountrySpecificFields list,
\* and that entry's name, string and set texts are those of the same
\* characteristic element as its code; building the trade item adds nothing
\* to the product-level list.
C27_OneEntryPerCharacteristic ==
    pc \in {"converted", "pruned"} =>
        LET fields == Get(returned.value, "ProductCountrySpecificFields").v
            CHARACTERISTICs == PRODUCT.PRODUCT_CHARACTERISTIC
        IN /\ Len(fields) = Len(CHARACTERISTICs)
           /\ \A i \in 1..Len(fields) :
                 /\ Get(fields[i], "CSProductCharacteristicCode") =
                       get_val(CHARACTERISTICs[i].PRODUCT_CHARACTERISTIC_CODE)
                 /\ RecordTexts(Get(fields[i], "CSProductCharacteristicName").v,
                                "CSProductCharacteristicName") =
                       ElementTexts(CHARACTERISTICs[i].PRODUCT_CHARACTERISTIC_NAME)
                 /\ RecordTexts(Get(fields[i], "CSProductCharacteristicValueString").v,
                                "CSProductCharacteristicValueString") =
                       ElementTexts(CHARACTERISTICs[i].PRODUCT_CHARACTERISTIC_VALUE_STRING)
                 /\ RecordTexts(Get(fields[i], "CSProductCharacteristicValueSet").v,
                                "CSProductCharacteristicValueSet") =
                       ElementTexts(CHARACTERISTICs[i].PRODUCT_CHARACTERISTIC_VALUE_SET)

(***************************************************************************)
(* Claims about the /convert endpoint, checked under SpecServer and        *)
(* SpecServerFair.                                                         *)
(***************************************************************************)
\* The requests inside the block of the semaphore: their conversion runs in
\* the worker thread, or it has ended and the handler has not yet left the
\* block.
InSection == {r \in Requests : requests[r].pc \in {"converting", "returned"}}
Starts(r) == requests[r].pc # "converting" /\ requests'[r].pc = "converting"

\* C24: at most 2 conversions run at the same time, and a request starts
\* its conversion only in a step before which fewer than 2 were running:
\* any further request waits until a running one has finished.
C24_AtMostTwoConversions ==
    /\ [](Cardinality(InSection) <= Capacity)
    /\ [][\A r \in Requests : Starts(r) => Cardinality(InSection) < Capacity]_vars

\* Two conversions are running and a third request waits in the queue, not
\* yet handed a permit.
C24_Witness ==
    /\ Cardinality({r \in Requests : requests[r].pc = "converting"}) = Capacity
    /\ \E r \in Requests :
          /\ requests[r].pc = "waiting"
          /\ ~Granted(CONVERSION_SEMAPHORE, r)

\* The requests that hold a permit: those inside the block of the
\* semaphore, and those a release has handed the permit to, which enter
\* the block at their next step.
Holders ==
    InSection \cup {r \in Requests : /\ requests[r].pc = "waiting"
                                     /\ Granted(CONVERSION_SEMAPHORE, r)}
PermitsHeld == Capacity - CONVERSION_SEMAPHORE.value
WaitsForPermit(r) == requests[r].pc = "waiting"
Converts(r) == requests[r].pc = "converting"

Ended(r) == requests[r].pc \in {"done", "aborted"}

\* C25: every fatal error of the conversion (malformed XML, unsupported
\* language code, int() of a non-number, or an exit of the validator
\* adapter such as a missing or invalid schema file) ends the request with
\* the generic conversion-failure response, sent exactly once, after a
\* single call of the conversion.
C25_FatalErrorGivesGenericFailure ==
    \A r \in Requests :
        (Ended(r) /\ requests[r].outcome \in {"Exception", "SystemExit"})
            => /\ requests[r].sent = <<"conversion failed">>
               /\ requests[r].calls = 1

\* The same for the errors raised as an Exception only.
ExceptionGivesGenericFailure ==
    \A r \in Requests :
        (Ended(r) /\ requests[r].outcome = "Exception")
            => /\ requests[r].sent = <<"conversion failed">>
               /\ requests[r].calls = 1

\* The requests in the handler after the checks of the upload, with their
\* temp files.
InFlight(r) ==
    requests[r].pc \in {"waiting", "converting", "returned", "sending", "background"}
OwnOutput(r) == UPLOAD_DIR[output_path(requests[r].filename)] = Document(r)

\* C29: two requests in flight never have the same output path; the file a
\* request is about to return is the one converted from its own upload,
\* neither overwritten nor removed by another request, and so is the file
\* it has returned.
C29_OutputFileIsOwn ==
    /\ \A q, r \in Requests :
          (q # r /\ InFlight(q) /\ InFlight(r))
             => output_path(requests[q].filename) # output_path(requests[r].filename)
    /\ \A r \in Requests : requests[r].pc = "sending" => OwnOutput(r)
    /\ \A r \in Requests :
          requests[r].sent = <<"file">> => requests[r].served = Document(r)


\* No file of request r is in the temp directory: neither its input file
\* nor an output file converted from its upload.
NoFilesOf(r) ==
    /\ UPLOAD_DIR[input_path(r)] = Missing
    /\ \A p \in Paths : UPLOAD_DIR[p] # Document(r)

\* C30: temporary files never outlive their request: however the request
\* has ended (file sent, missing or unreadable output, any failure raised
\* by the conversion, the exits of the validator adapter included), its
\* input file and its output file are removed.
C30_TempFilesRemoved == \A r \in Requests : Ended(r) => NoFilesOf(r)

\* The same for the requests that ended by a response of the handler and
\* its cleanup.
TempFilesRemovedAfterResponse ==
    \A r \in Requests : requests[r].pc = "done" => NoFilesOf(r)

=============================================================================
